---- MODULE Spec2Model ----
(***************************************************************************)
(* State-machine model of the mxflib indexing core:                        *)
(*   - SystemSource::CalcFillerSize            (mxflib/essence.h)          *)
(*   - IndexTable / IndexSegment               (mxflib/index.cpp)          *)
(*   - IndexManager                            (mxflib/index.cpp)          *)
(*   - EssenceSubParser::ESP_EssenceSource     (mxflib/essence.h)          *)
(*   - MPEG2_VES_EssenceSubParser edit rate    (unnamed/part_000)          *)
(*   - GCLayout, GCWriter                      (mxflib/essence.h)          *)
(*   - ReorderIndex                            (mxflib/index.cpp)          *)
(* Several specifications share the module: SpecFill (filler computation), *)
(* SpecLookup (index table look-up), SpecTable (building an index table),  *)
(* SpecWrite (writing an index table), Spec, SpecEmit, SpecProvisional     *)
(* and SpecSupplied (the index manager feeding an index table),            *)
(* SpecSource (an essence source read chunk by chunk), SpecRate (the edit  *)
(* rate of an MPEG2 video sub-parser), SpecLayout (a generic container     *)
(* layout tracker), SpecWriter (the elements of a generic container        *)
(* writer) and SpecReorder (a ReorderIndex committing to an index table).  *)
(* Each specification owns a group of variables and leaves the other       *)
(* groups untouched.                                                       *)
(***************************************************************************)
EXTENDS Integers, Sequences, FiniteSets, TLC

VARIABLES
    fillIn,      \* arguments of a CalcFillerSize call
    fillOut,     \* its result, NoResult before the call
    Table,       \* an IndexTable being built and looked up
    lookIn,      \* arguments of the last IndexTable::Lookup call
    Ret,         \* the IndexPos it returned, NoResult before a call
    tblCall,     \* the last call made on the IndexTable while it is built
    nTblCalls,   \* number of such calls so far
    \* IndexManager members
    FormatFixed,
    UsesReordering,
    DataIsCBR,
    StreamCount,
    PosTableList,
    ElementSizeList,
    SubRangeOffset,
    ManagedData,                  \* std::map<Position, IndexData*>
    UnsatisfiedTemporalOffsets,   \* std::map<Position, int>
    UnsatisfiedTemporalDiffs,     \* std::map<Position, int>
    ProvisionalEntry,             \* NoEntry, or the buffered entry and its edit unit
    \* the application's side of the manager
    Index,       \* the IndexTable returned by the last MakeIndex, NoResult before
    call,        \* the last IndexManager call: its name, arguments and result
    emitted,     \* the IndexTable::AddIndexEntry calls of the last AddEntriesToIndex
    nOffers,     \* number of offers made so far
    nEmits,      \* number of AddEntriesToIndex calls on the current Index
    \* an essence source over a sub-parser
    FileUnits,   \* the essence file: the sizes of its wrapping units in order
    Parser,      \* members of the EssenceSubParser and the file pointer
    Source,      \* members of the ESP_EssenceSource
    srcCall,     \* the last GetEssenceData call: its arguments and result
    delivered,   \* every byte returned so far, in the order returned
    \* the edit rate of an MPEG2 video elementary stream sub-parser
    VES,         \* members of the MPEG2_VES_EssenceSubParser
    vesCall,     \* the last SetEditRate / GetCurrentPosition call and result
    \* a GCLayout tracker
    Layout,      \* members of the GCLayout
    layCall,     \* the last Offer call: the element, the result, the GC so far
    \* a GCWriter
    StreamTable, \* the elements registered with the GCWriter, in order
    gcwCall,     \* the last Add...Element call and the stream ID it returned
    \* a ReorderIndex
    Reorderer,   \* members of the ReorderIndex
    roCall,      \* the last ReorderIndex call, its arguments and result
    nRoCalls     \* number of ReorderIndex calls made

fillVars == <<fillIn, fillOut>>
tblVars == <<Table, lookIn, Ret, tblCall, nTblCalls>>
srcVars == <<FileUnits, Parser, Source, srcCall, delivered>>
rateVars == <<VES, vesCall>>
layVars == <<Layout, layCall>>
gcwVars == <<StreamTable, gcwCall>>
roVars == <<Reorderer, roCall, nRoCalls>>
gcVars == <<VES, vesCall, Layout, layCall, StreamTable, gcwCall, Reorderer, roCall, nRoCalls>>
formatVars == <<FormatFixed, UsesReordering, DataIsCBR, StreamCount, PosTableList,
                ElementSizeList>>
dataVars == <<ManagedData, UnsatisfiedTemporalOffsets, UnsatisfiedTemporalDiffs,
              ProvisionalEntry>>
mgrVars == <<FormatFixed, UsesReordering, DataIsCBR, StreamCount, PosTableList,
             ElementSizeList, SubRangeOffset, ManagedData, UnsatisfiedTemporalOffsets,
             UnsatisfiedTemporalDiffs, ProvisionalEntry, Index, call, emitted,
             nOffers, nEmits>>
vars == <<fillIn, fillOut, Table, lookIn, Ret, tblCall, nTblCalls, FormatFixed, UsesReordering, DataIsCBR,
          StreamCount, PosTableList, ElementSizeList, SubRangeOffset, ManagedData,
          UnsatisfiedTemporalOffsets, UnsatisfiedTemporalDiffs, ProvisionalEntry,
          Index, call, emitted, nOffers, nEmits,
          FileUnits, Parser, Source, srcCall, delivered,
          VES, vesCall, Layout, layCall, StreamTable, gcwCall, Reorderer, roCall, nRoCalls>>

NoResult == [op |-> "none"]

(***************************************************************************)
(* SystemSource::CalcFillerSize                                            *)
(***************************************************************************)

\* Largest filler the code will return (essence.h: if(Fill > 0x00ffffff))
MaxFiller == 16777215

\* Minimum KLV overhead of a filler: 16-byte key + 1-byte BER length
MinFillShort == 17

\* Minimum KLV overhead with a forced 4-byte BER length
MinFillBER4 == 20

\* while(Fill < Min) Fill += KAGSize;
RECURSIVE RaiseFill(_, _, _)
RaiseFill(Fill, KAGSize, Min) ==
    IF Fill < Min THEN RaiseFill(Fill + KAGSize, KAGSize, Min) ELSE Fill

\* The minimum the filler is raised to
FillMinimum_IgnoreForce(ForceBER4) == MinFillShort
FillMinimum(ForceBER4) == IF ForceBER4 THEN MinFillBER4 ELSE MinFillShort

\* The clamp of an excessive filler, with the error it reports
ClampFill_Silent(Fill) ==
    [Fill |-> IF Fill > MaxFiller THEN MaxFiller ELSE Fill, Error |-> FALSE]
ClampFill(Fill) ==
    IF Fill > MaxFiller THEN [Fill |-> MaxFiller, Error |-> TRUE]
                        ELSE [Fill |-> Fill, Error |-> FALSE]

\* UInt32 CalcFillerSize(Position FillPos, UInt32 KAGSize, bool ForceBER4)
\* FillPos is a write position (>= 0); all values stay far below 2^31, so
\* no 32-bit wrap-around can occur in the modelled range.
CalcFillerSize(FillPos, KAGSizeArg, ForceBER4) ==
    LET KAGSize == IF KAGSizeArg = 0 THEN 1 ELSE KAGSizeArg
        Offset  == FillPos % KAGSize
    IN  IF Offset = 0
        THEN [Fill |-> 0, Error |-> FALSE]
        ELSE ClampFill(RaiseFill(KAGSize - Offset, KAGSize, FillMinimum(ForceBER4)))

\* Bounds of the filler inputs
MaxFillPos == 40
BigKAG == MaxFiller + 1

FillPositions == (0 .. MaxFillPos) \cup {1000, 1024, BigKAG - 20, BigKAG, BigKAG + 1}
KAGSizes == {0, 1, 2, 3, 16, 17, 20, 512, BigKAG, BigKAG + 16, 2 * BigKAG}

FillIdle ==
    /\ fillIn = NoResult
    /\ fillOut = NoResult

FillInit ==
    /\ fillIn \in [FillPos : FillPositions, KAGSize : KAGSizes, ForceBER4 : BOOLEAN]
    /\ fillOut = NoResult

\* Apply CalcFillerSize to the drawn arguments
CalcFill ==
    /\ fillOut = NoResult
    /\ fillOut' = [op |-> "CalcFillerSize"] @@
                  CalcFillerSize(fillIn.FillPos, fillIn.KAGSize, fillIn.ForceBER4)
    /\ UNCHANGED fillIn
    /\ UNCHANGED tblVars
    /\ UNCHANGED <<mgrVars, srcVars, gcVars>>

FillNext == CalcFill

(***************************************************************************)
(* Helpers: finite maps (std::map) and byte conversions                    *)
(***************************************************************************)

Max(S) == CHOOSE x \in S : \A y \in S : y <= x
Min_Largest(S) == CHOOSE x \in S : \A y \in S : y <= x
Min(S) == CHOOSE x \in S : \A y \in S : x <= y

\* (UInt8)x of an Int8 / int argument: the byte written into the entry
PutU8(x) == x % 256

\* GetI8: the byte read back as a signed value
GetI8(b) == IF b >= 128 THEN b - 256 ELSE b

\* Flags & 4
FlagBit2(Flags) == (Flags \div 4) % 2 = 1

(***************************************************************************)
(* IndexTable and IndexSegment                                             *)
(***************************************************************************)

\* Largest IndexEntryArray a 2-byte local set length allows (0xffff)
MaxSegmentBytes == 65535

\* IndexEntrySize = (11 + 4*NSL + 8*NPE)
IndexEntrySize(tbl) == 11 + 4 * tbl.NSL + 8 * tbl.NPE

\* IndexSegment::AddIndexSegmentToIndexTable: a new empty segment that
\* copies the table's base delta array
NewSegment(tbl, StartPosition) ==
    [StartPosition |-> StartPosition,
     EntryCount    |-> 0,
     Entries       |-> << >>,
     DeltaArray    |-> tbl.BaseDeltaArray]

\* The same without the look-up: a new empty segment always takes the start
\* position
AddSegment_Replace(tbl, StartPosition) ==
    [tbl EXCEPT !.SegmentMap =
        [k \in (DOMAIN tbl.SegmentMap) \cup {StartPosition} |->
            IF k = StartPosition THEN NewSegment(tbl, StartPosition)
                                 ELSE tbl.SegmentMap[k]]]

\* IndexTable::AddSegment(Int64 StartPosition): the existing segment if one
\* starts there, else a new empty one inserted into the SegmentMap
AddSegment(tbl, StartPosition) ==
    IF StartPosition \in DOMAIN tbl.SegmentMap
    THEN tbl
    ELSE [tbl EXCEPT !.SegmentMap =
              [k \in (DOMAIN tbl.SegmentMap) \cup {StartPosition} |->
                  IF k = StartPosition THEN NewSegment(tbl, StartPosition)
                                       ELSE tbl.SegmentMap[k]]]

\* SegmentMap.find(EditUnit), else the nearest key before it; found is
\* FALSE for SegmentMap.end() (no segment starts at or before EditUnit)
FindSegmentKey_ExactOnly(SegmentMap, EditUnit) ==
    [found |-> EditUnit \in DOMAIN SegmentMap, key |-> EditUnit]
FindSegmentKey(SegmentMap, EditUnit) ==
    IF EditUnit \in DOMAIN SegmentMap THEN [found |-> TRUE, key |-> EditUnit]
    ELSE LET before == {k \in DOMAIN SegmentMap : k < EditUnit}
         IN  IF before = {} THEN [found |-> FALSE, key |-> EditUnit]
                            ELSE [found |-> TRUE, key |-> Max(before)]

\* IndexTable::GetSegment: the table (a segment may have been added) and the
\* key of the segment to use
GetSegment(tbl, EditUnit) ==
    LET it == FindSegmentKey(tbl.SegmentMap, EditUnit)
    IN  IF ~it.found \/ it.key > EditUnit
        THEN [tbl |-> AddSegment(tbl, EditUnit), key |-> EditUnit]
        ELSE LET seg == tbl.SegmentMap[it.key]
             IN  IF EditUnit > seg.StartPosition + seg.EntryCount
                 THEN [tbl |-> AddSegment(tbl, EditUnit), key |-> EditUnit]
                 ELSE [tbl |-> tbl, key |-> it.key]

\* The size test of IndexSegment::AddIndexEntry:
\*   NewSize = ((EntryCount+1) * IndexEntrySize + 8);  if(NewSize > 0xffff) fail
SegmentHasRoom(tbl, seg) ==
    (seg.EntryCount + 1) * IndexEntrySize(tbl) + 8 <= MaxSegmentBytes

\* A PosTable pair as IndexSegment::AddIndexEntry writes it: Numerator and
\* Denominator are both put at Ptr, so the first four bytes end up holding
\* the Denominator and the next four keep what the new buffer held
WrittenPos(p, Garbage) == [Numerator |-> p.Denominator, Denominator |-> Garbage]

\* The entry as IndexSegment::AddIndexEntry writes it into its buffer
\* (e.Garbage: the content of the uninitialised bytes of the buffer)
WrittenEntry(e) ==
    [TemporalOffset |-> PutU8(e.TemporalOffset),
     KeyFrameOffset |-> PutU8(e.KeyFrameOffset),
     Flags          |-> PutU8(e.Flags),
     StreamOffset   |-> e.StreamOffset,
     SliceOffsets   |-> e.SliceOffsets,
     PosTable       |-> [i \in 1 .. Len(e.PosTable) |->
                            WrittenPos(e.PosTable[i], e.Garbage)]]

\* IndexSegment::AddIndexEntry: ok and the segment afterwards
SegAddIndexEntry(tbl, seg, e) ==
    IF Len(e.SliceOffsets) # tbl.NSL \/ Len(e.PosTable) # tbl.NPE
    THEN [ok |-> FALSE, seg |-> seg]
    ELSE IF ~SegmentHasRoom(tbl, seg)
    THEN [ok |-> FALSE, seg |-> seg]
    ELSE [ok |-> TRUE,
          seg |-> [seg EXCEPT !.Entries = Append(@, WrittenEntry(e)),
                              !.EntryCount = @ + 1]]

\* IndexTable::AddIndexEntry: the entry goes to the end of the segment that
\* GetSegment selects (an existing position is not replaced, an error is
\* logged and the entry is still appended); if that fails a segment starting
\* at EditUnit is tried.  Returns the table, the result, the key of the
\* segment written and the position the entry landed on.
TableAddIndexEntry(tbl, EditUnit, e) ==
    LET g     == GetSegment(tbl, EditUnit)
        seg   == g.tbl.SegmentMap[g.key]
        first == SegAddIndexEntry(g.tbl, seg, e)
        t2    == AddSegment(g.tbl, EditUnit)
        seg2  == t2.SegmentMap[EditUnit]
        retry == SegAddIndexEntry(t2, seg2, e)
    IN  IF first.ok
        THEN [tbl |-> [g.tbl EXCEPT !.SegmentMap[g.key] = first.seg],
              ok |-> TRUE, key |-> g.key,
              stored |-> seg.StartPosition + seg.EntryCount,
              replaced |-> EditUnit < seg.StartPosition + seg.EntryCount]
        ELSE IF retry.ok
        THEN [tbl |-> [t2 EXCEPT !.SegmentMap[EditUnit] = retry.seg],
              ok |-> TRUE, key |-> EditUnit,
              stored |-> seg2.StartPosition + seg2.EntryCount,
              replaced |-> EditUnit < seg.StartPosition + seg.EntryCount]
        ELSE [tbl |-> t2, ok |-> FALSE, key |-> EditUnit, stored |-> EditUnit,
              replaced |-> EditUnit < seg.StartPosition + seg.EntryCount]

(***************************************************************************)
(* IndexTable::Lookup                                                      *)
(***************************************************************************)

\* KeyLocation = ~0 : key frame in another segment or out of range
KeyLocationSentinel == -1

\* A PosOffset that Lookup did not set
NoPosOffset == [Numerator |-> 0, Denominator |-> 0]

\* Start of edit unit: Loc = EditUnit * (Position)EditUnitByteCount
CBRStart_NextUnit(tbl, EditUnit) == (EditUnit + 1) * tbl.EditUnitByteCount
CBRStart(tbl, EditUnit) == EditUnit * tbl.EditUnitByteCount

\* The CBR branch of Lookup (EditUnitByteCount != 0)
LookupCBR(tbl, EditUnit, SubItem) ==
    LET Start == CBRStart(tbl, EditUnit)
        BaseDeltaCount == Len(tbl.BaseDeltaArray)
        r == IF SubItem = 0
             THEN [Exact |-> TRUE, Loc |-> Start, Error |-> FALSE]
             ELSE IF SubItem >= BaseDeltaCount
             THEN [Exact |-> FALSE, Loc |-> Start, Error |-> FALSE]
             ELSE IF tbl.BaseDeltaArray[SubItem + 1].Slice # 0
             THEN [Exact |-> FALSE, Loc |-> Start, Error |-> TRUE]
             ELSE [Exact |-> TRUE, Error |-> FALSE,
                   Loc |-> Start + tbl.BaseDeltaArray[SubItem + 1].ElementDelta]
    IN  [ThisPos |-> EditUnit, Location |-> r.Loc, Exact |-> r.Exact,
         OtherPos |-> FALSE, Offset |-> FALSE, KeyFrameOffset |-> 0,
         TemporalOffset |-> 0, KeyLocation |-> r.Loc, Flags |-> 0,
         PosOffset |-> NoPosOffset, Error |-> r.Error]

\* The result for a position before the start of the table, and for an
\* empty segment (where an error is logged)
LookupStart(Error) ==
    [ThisPos |-> 0, Location |-> 0, Exact |-> FALSE, OtherPos |-> FALSE,
     Offset |-> FALSE, KeyFrameOffset |-> 0, TemporalOffset |-> 0,
     KeyLocation |-> 0, Flags |-> 0, PosOffset |-> NoPosOffset, Error |-> Error]

\* The non-exact result from the last entry of the nearest segment
LookupNearest(seg) ==
    LET Loc == seg.Entries[seg.EntryCount].StreamOffset
    IN  [ThisPos |-> seg.StartPosition + seg.EntryCount - 1, Location |-> Loc,
         Exact |-> FALSE, OtherPos |-> TRUE, Offset |-> FALSE,
         KeyFrameOffset |-> 0, TemporalOffset |-> 0, KeyLocation |-> Loc,
         Flags |-> 0, PosOffset |-> NoPosOffset, Error |-> FALSE]

SubItemReorders_OffByOne(seg, SubItem) ==
    \/ Len(seg.DeltaArray) = 0
    \/ /\ SubItem < Len(seg.DeltaArray)
       /\ seg.DeltaArray[SubItem + 1].PosTableIndex <= 0

\* Is the sub-item subject to temporal re-ordering in this segment?
\*   Segment->DeltaCount == 0 ||
\*   (SubItem < Segment->DeltaCount) && (DeltaArray[SubItem].PosTableIndex < 0)
SubItemReorders(seg, SubItem) ==
    \/ Len(seg.DeltaArray) = 0
    \/ /\ SubItem < Len(seg.DeltaArray)
       /\ seg.DeltaArray[SubItem + 1].PosTableIndex < 0

\* Does Lookup follow the temporal offset of the entry?
ApplyReorder(seg, SubItem, Reorder, TemporalOffset) ==
    Reorder /\ TemporalOffset # 0 /\ SubItemReorders(seg, SubItem)

\* Stands for the 8 bytes GetI64 reads behind the last entry of the
\* IndexEntryArray: whatever the memory holds there
UnreadBytes == KeyLocationSentinel - 1

\* Values those bytes can hold: the sentinel, nothing, an old stream offset
UnreadValues == {KeyLocationSentinel, 0, 100}

\* The key frame location of the entry at EditUnit
KeyLocationOf(seg, EditUnit, KeyFrameOffset, Flags) ==
    IF FlagBit2(Flags) \/ (-KeyFrameOffset) > (EditUnit - seg.StartPosition)
    THEN KeyLocationSentinel
    ELSE LET k == EditUnit - seg.StartPosition - (-KeyFrameOffset) + 1
         IN  IF k \in 1 .. seg.EntryCount
             THEN seg.Entries[k].StreamOffset
             ELSE UnreadBytes

\* The location of a sub-item within the edit unit: slice offset plus delta
SubItemDelta(seg, entry, SubItem) ==
    IF SubItem > 0
    THEN LET Slice == seg.DeltaArray[SubItem + 1].Slice
         IN  (IF Slice # 0 THEN entry.SliceOffsets[Slice] ELSE 0)
             + seg.DeltaArray[SubItem + 1].ElementDelta
    ELSE 0

\* The exact VBR result for the entry at EditUnit of segment seg
LookupExact(tbl, seg, EditUnit, SubItem) ==
    LET entry == seg.Entries[EditUnit - seg.StartPosition + 1]
        TemporalOffset == GetI8(entry.TemporalOffset)
        KeyFrameOffset == GetI8(entry.KeyFrameOffset)
        DeltaCount == Len(seg.DeltaArray)
        base == [ThisPos |-> EditUnit,
                 TemporalOffset |-> IF SubItemReorders(seg, SubItem)
                                    THEN TemporalOffset ELSE 0,
                 KeyFrameOffset |-> KeyFrameOffset,
                 Flags |-> entry.Flags,
                 KeyLocation |-> KeyLocationOf(seg, EditUnit, KeyFrameOffset, entry.Flags),
                 Error |-> FALSE]
    IN  IF SubItem >= DeltaCount
        THEN base @@ [Location |-> entry.StreamOffset, Exact |-> FALSE,
                      OtherPos |-> FALSE, Offset |-> FALSE, PosOffset |-> NoPosOffset]
        ELSE LET PosTableIndex == seg.DeltaArray[SubItem + 1].PosTableIndex
             IN  base @@
                 [Location |-> entry.StreamOffset + SubItemDelta(seg, entry, SubItem),
                  Exact |-> TRUE, OtherPos |-> FALSE,
                  Offset |-> PosTableIndex > 0,
                  PosOffset |-> IF PosTableIndex > 0
                                THEN entry.PosTable[PosTableIndex]
                                ELSE NoPosOffset]

\* IndexPosPtr IndexTable::Lookup(Position EditUnit, int SubItem, bool Reorder)
RECURSIVE Lookup(_, _, _, _)
Lookup(tbl, EditUnit, SubItem, Reorder) ==
    IF tbl.EditUnitByteCount # 0
    THEN LookupCBR(tbl, EditUnit, SubItem)
    ELSE LET it == FindSegmentKey(tbl.SegmentMap, EditUnit)
         IN  IF ~it.found \/ it.key > EditUnit
             THEN LookupStart(FALSE)
             ELSE LET seg == tbl.SegmentMap[it.key]
                  IN  IF seg.EntryCount = 0
                      THEN LookupStart(TRUE)
                      ELSE IF seg.StartPosition + seg.EntryCount - 1 < EditUnit
                      THEN LookupNearest(seg)
                      ELSE LET T == GetI8(seg.Entries[EditUnit - seg.StartPosition + 1].TemporalOffset)
                           IN  IF ApplyReorder(seg, SubItem, Reorder, T)
                               THEN [Lookup(tbl, EditUnit + T, SubItem, FALSE)
                                        EXCEPT !.TemporalOffset = T]
                               ELSE LookupExact(tbl, seg, EditUnit, SubItem)

(***************************************************************************)
(* SpecLookup: an index table is loaded (its header drawn from a small     *)
(* family), filled through IndexTable::AddIndexEntry and looked up         *)
(***************************************************************************)

\* Bounds of the look-up model
MaxEntries == 2
MaxPos == 2
MaxSubItem == 2

\* EditUnitByteCount of the CBR tables
CBRBytes == 10

DeltaEntry(p, s, d) == [PosTableIndex |-> p, Slice |-> s, ElementDelta |-> d]

\* Table headers as a loaded index table segment can set them:
\* no delta array; a re-ordered picture with an exempt sound element and a
\* second slice; a table with a PosTable whose first delta is not zero
TableHeaders ==
    { [BaseDeltaArray |-> << >>, NSL |-> 0, NPE |-> 0],
      [BaseDeltaArray |-> << DeltaEntry(-1, 0, 0), DeltaEntry(0, 0, 4),
                             DeltaEntry(-1, 1, 0) >>, NSL |-> 1, NPE |-> 0],
      [BaseDeltaArray |-> << DeltaEntry(0, 0, 2), DeltaEntry(1, 0, 6),
                             DeltaEntry(-1, 1, 0) >>, NSL |-> 1, NPE |-> 1] }

NewTable(h, ByteCount) ==
    [EditUnitByteCount |-> ByteCount,
     BaseDeltaArray    |-> h.BaseDeltaArray,
     NSL               |-> h.NSL,
     NPE               |-> h.NPE,
     SegmentMap        |-> << >>]

\* Per-entry values offered to AddIndexEntry: temporal offset, key frame
\* offset, flags and the content of the uninitialised buffer bytes
EntrySamples ==
    { [TemporalOffset |-> 0,  KeyFrameOffset |-> 0,  Flags |-> 128, Garbage |-> 0],
      [TemporalOffset |-> 1,  KeyFrameOffset |-> -1, Flags |-> 0,   Garbage |-> 7],
      [TemporalOffset |-> -1, KeyFrameOffset |-> -1, Flags |-> 4,   Garbage |-> 0],
      [TemporalOffset |-> 1,  KeyFrameOffset |-> -2, Flags |-> 0,   Garbage |-> 7],
      [TemporalOffset |-> 0,  KeyFrameOffset |-> 1,  Flags |-> 0,   Garbage |-> 0] }

\* Number of entries held by a table
RECURSIVE SumEntries(_, _)
SumEntries(SegmentMap, keys) ==
    IF keys = {} THEN 0
    ELSE LET k == CHOOSE x \in keys : TRUE
         IN  SegmentMap[k].EntryCount + SumEntries(SegmentMap, keys \ {k})

TotalEntries(tbl) == SumEntries(tbl.SegmentMap, DOMAIN tbl.SegmentMap)

\* The entry offered: the stream offset grows with each entry written
OfferedEntry(tbl, smp) ==
    [TemporalOffset |-> smp.TemporalOffset,
     KeyFrameOffset |-> smp.KeyFrameOffset,
     Flags          |-> smp.Flags,
     StreamOffset   |-> 100 * (TotalEntries(tbl) + 1),
     SliceOffsets   |-> [i \in 1 .. tbl.NSL |-> 8 * i],
     PosTable       |-> [i \in 1 .. tbl.NPE |-> [Numerator |-> 1, Denominator |-> 2]],
     Garbage        |-> smp.Garbage]

TblIdle ==
    /\ Table = NoResult
    /\ lookIn = NoResult
    /\ Ret = NoResult
    /\ tblCall = NoResult
    /\ nTblCalls = 0

LookupInit ==
    /\ Table \in {NewTable(h, b) : h \in TableHeaders, b \in {0, CBRBytes}}
    /\ lookIn = NoResult
    /\ Ret = NoResult
    /\ tblCall = NoResult
    /\ nTblCalls = 0

\* IndexTable::AddIndexEntry on a VBR table
TblAddIndexEntry ==
    /\ lookIn = NoResult
    /\ Table.EditUnitByteCount = 0
    /\ TotalEntries(Table) < MaxEntries
    /\ \E EditUnit \in 0 .. MaxPos, smp \in EntrySamples :
          Table' = TableAddIndexEntry(Table, EditUnit, OfferedEntry(Table, smp)).tbl
    /\ lookIn' = NoResult
    /\ Ret' = NoResult
    /\ UNCHANGED <<tblCall, nTblCalls>>
    /\ UNCHANGED fillVars
    /\ UNCHANGED <<mgrVars, srcVars, gcVars>>

\* IndexTable::Lookup
DoLookup ==
    /\ lookIn = NoResult
    /\ \E EditUnit \in -1 .. MaxPos + 1, SubItem \in 0 .. MaxSubItem, Reorder \in BOOLEAN :
          /\ lookIn' = [op |-> "Lookup", EditUnit |-> EditUnit,
                        SubItem |-> SubItem, Reorder |-> Reorder]
          /\ \E any \in UnreadValues :
                LET r == Lookup(Table, EditUnit, SubItem, Reorder)
                IN  Ret' = IF r.KeyLocation = UnreadBytes
                           THEN [r EXCEPT !.KeyLocation = any] ELSE r
    /\ UNCHANGED <<Table, tblCall, nTblCalls, fillVars>>
    /\ UNCHANGED <<mgrVars, srcVars, gcVars>>

LookupNext == TblAddIndexEntry \/ DoLookup

(***************************************************************************)
(* IndexManager                                                            *)
(***************************************************************************)

\* Bounds of the manager model
MaxStreams == 2
MaxEditUnit == 1
MaxTemporal == 1
MaxSubRange == 1
MaxOffers == 4
MaxConfiguredOffers == 2
MaxEmits == 2

\* Element size of a CBR stream, stream offsets and per-entry values offered
ElementSizes == {0, 4, 6}
StreamOffsets == {10, 20}
PerEntryValues == {[KeyOffset |-> 0, Flags |-> -1], [KeyOffset |-> -1, Flags |-> 128]}

\* MasterStream = 0 (the main stream is the master by default)
MasterStream == 0

\* Status bits of a managed entry: have offset, have temporal offset, have
\* temporal diff
HaveOffset == 1
HaveTemporalOffset == 2
HaveTemporalDiff == 4

HasBit(x, bit) == (x \div bit) % 2 = 1
SetBit(x, bit) == IF HasBit(x, bit) THEN x ELSE x + bit

\* (Status & Test) == Test
HasAllBits(Status, Test) ==
    \A bit \in {HaveOffset, HaveTemporalOffset, HaveTemporalDiff} :
        HasBit(Test, bit) => HasBit(Status, bit)

\* ProvisionalEntry == NULL
NoEntry == [Valid |-> FALSE]

\* std::map::insert: an existing key keeps its value
MapInsert(m, k, v) == IF k \in DOMAIN m THEN m ELSE (k :> v) @@ m

\* std::map::erase
MapErase(m, k) == [x \in (DOMAIN m) \ {k} |-> m[x]]

\* A new IndexData, memset to zero, with one stream offset per stream
NewIndexData(n) ==
    [Status |-> 0, Flags |-> 0, KeyOffset |-> 0, TemporalOffset |-> 0,
     TemporalDiff |-> 0, StreamOffset |-> [i \in 1 .. n |-> 0]]

\* Correct for sub-range offset: EditUnit -= SubRangeOffset
CorrectForSubRange_Absolute(EditUnit, Offset) == EditUnit
CorrectForSubRange(EditUnit, Offset) == EditUnit - Offset

\* "Can we satisfy an outstanding temporal offset?": the new entry takes the
\* parked offset and the unsatisfied record is erased
SatisfyTemporalOffset_KeepRecord(entry, uto, EditUnit) ==
    IF EditUnit \in DOMAIN uto
    THEN [entry |-> [entry EXCEPT !.TemporalOffset = uto[EditUnit]], map |-> uto]
    ELSE [entry |-> entry, map |-> uto]
SatisfyTemporalOffset(entry, uto, EditUnit) ==
    IF EditUnit \in DOMAIN uto
    THEN [entry |-> [entry EXCEPT !.TemporalOffset = uto[EditUnit]],
          map   |-> MapErase(uto, EditUnit)]
    ELSE [entry |-> entry, map |-> uto]

\* "Can we satisfy an outstanding temporal difference?"
SatisfyTemporalDiff(entry, utd, EditUnit) ==
    IF EditUnit \in DOMAIN utd
    THEN [entry |-> [entry EXCEPT !.TemporalDiff = utd[EditUnit]],
          map   |-> MapErase(utd, EditUnit)]
    ELSE [entry |-> entry, map |-> utd]

\* The same without the re-use: a buffered entry is dropped whatever its edit
\* unit
LocateEntry_NoReuse(md, uto, utd, prov, n, EditUnit) ==
    IF EditUnit \in DOMAIN md
    THEN [md |-> md, uto |-> uto, utd |-> utd, attached |-> TRUE]
    ELSE [md |-> MapInsert(md, EditUnit, NewIndexData(n)), uto |-> uto,
          utd |-> utd, attached |-> TRUE]

\* The entry AddEditUnit / SetOffset work on: the provisional entry if it is
\* for this edit unit (it is inserted in the managed data; if the edit unit
\* is already managed the insert has no effect and the entry written to is
\* not the managed one), else the managed entry, else a new entry that takes
\* any unsatisfied temporal offset and difference.  Any provisional entry is
\* dropped.
LocateEntry(md, uto, utd, prov, n, EditUnit) ==
    IF prov.Valid /\ prov.EditUnit = EditUnit
    THEN [md |-> MapInsert(md, EditUnit, prov.Entry), uto |-> uto, utd |-> utd,
          attached |-> EditUnit \notin DOMAIN md]
    ELSE IF EditUnit \in DOMAIN md
    THEN [md |-> md, uto |-> uto, utd |-> utd, attached |-> TRUE]
    ELSE LET a == SatisfyTemporalOffset(NewIndexData(n), uto, EditUnit)
             b == SatisfyTemporalDiff(a.entry, utd, EditUnit)
         IN  [md |-> MapInsert(md, EditUnit, b.entry), uto |-> a.map,
              utd |-> b.map, attached |-> TRUE]

\* Only the master stream sets the per-entry values
SetPerEntry(entry, SubStream, KeyOffset, Flags) ==
    IF SubStream = MasterStream
    THEN [entry EXCEPT !.KeyOffset = IF KeyOffset # 0 THEN KeyOffset ELSE @,
                       !.Flags = IF Flags # -1 THEN Flags ELSE @]
    ELSE entry

\* IndexManager::IndexManager(int PosTableIndex, UInt32 ElementSize)
MgrInit ==
    /\ \E PosTableIndex \in {-1, 0}, ElementSize \in ElementSizes :
          /\ UsesReordering = (PosTableIndex < 0)
          /\ DataIsCBR = (ElementSize > 0)
          /\ PosTableList = << PosTableIndex >>
          /\ ElementSizeList = << ElementSize >>
    /\ FormatFixed = FALSE
    /\ StreamCount = 1
    /\ SubRangeOffset = 0
    /\ ManagedData = << >>
    /\ UnsatisfiedTemporalOffsets = << >>
    /\ UnsatisfiedTemporalDiffs = << >>
    /\ ProvisionalEntry = NoEntry
    /\ Index = NoResult
    /\ call = NoResult
    /\ emitted = << >>
    /\ nOffers = 0
    /\ nEmits = 0

MgrIdle ==
    /\ FormatFixed = FALSE
    /\ UsesReordering = FALSE
    /\ DataIsCBR = FALSE
    /\ StreamCount = 1
    /\ PosTableList = << 0 >>
    /\ ElementSizeList = << 0 >>
    /\ SubRangeOffset = 0
    /\ ManagedData = << >>
    /\ UnsatisfiedTemporalOffsets = << >>
    /\ UnsatisfiedTemporalDiffs = << >>
    /\ ProvisionalEntry = NoEntry
    /\ Index = NoResult
    /\ call = NoResult
    /\ emitted = << >>
    /\ nOffers = 0
    /\ nEmits = 0

\* "If we have finalised the format we can't add a new stream"
AddSubStreamRefused_Never(Fixed) == FALSE
AddSubStreamRefused(Fixed) == Fixed

\* int IndexManager::AddSubStream(int PosTableIndex, UInt32 ElementSize)
\* (the growth of the stream arrays beyond 16 streams is not modelled)
AddSubStream(PosTableIndex, ElementSize) ==
    /\ IF AddSubStreamRefused(FormatFixed)
       THEN /\ call' = [op |-> "AddSubStream", ret |-> 0]
            /\ UNCHANGED formatVars
       ELSE /\ StreamCount < MaxStreams
            /\ UsesReordering' = (UsesReordering \/ PosTableIndex < 0)
            /\ DataIsCBR' = (DataIsCBR /\ ElementSize # 0)
            /\ PosTableList' = Append(PosTableList, PosTableIndex)
            /\ ElementSizeList' = Append(ElementSizeList, ElementSize)
            /\ StreamCount' = StreamCount + 1
            /\ call' = [op |-> "AddSubStream", ret |-> StreamCount]
            /\ UNCHANGED FormatFixed
    /\ UNCHANGED <<dataVars, SubRangeOffset, Index, emitted, nOffers, nEmits>>
    /\ UNCHANGED <<fillVars, tblVars, srcVars, gcVars>>

\* The sub-range offset is configured before indexing starts
SetSubRangeOffset(Offset) ==
    /\ nOffers = 0
    /\ SubRangeOffset' = Offset
    /\ call' = [op |-> "SetSubRangeOffset"]
    /\ UNCHANGED <<formatVars, dataVars, Index, emitted, nOffers, nEmits>>
    /\ UNCHANGED <<fillVars, tblVars, srcVars, gcVars>>

\* void IndexManager::AddEditUnit(int SubStream, Position EditUnit, int KeyOffset, int Flags)
\* also IndexManager::OfferEditUnit, which accepts every offer
AddEditUnit(SubStream, EditUnitArg, KeyOffset, Flags) ==
    /\ nOffers < MaxOffers
    /\ nOffers' = nOffers + 1
    /\ call' = [op |-> "AddEditUnit", EditUnit |-> EditUnitArg]
    /\ IF DataIsCBR
       THEN UNCHANGED <<dataVars, FormatFixed>>
       ELSE LET EditUnit == CorrectForSubRange(EditUnitArg, SubRangeOffset)
                loc == LocateEntry(ManagedData, UnsatisfiedTemporalOffsets,
                                   UnsatisfiedTemporalDiffs, ProvisionalEntry,
                                   StreamCount, EditUnit)
            IN  /\ FormatFixed' = TRUE
                /\ ManagedData' =
                       IF loc.attached
                       THEN [loc.md EXCEPT ![EditUnit] =
                                SetPerEntry(@, SubStream, KeyOffset, Flags)]
                       ELSE loc.md
                /\ UnsatisfiedTemporalOffsets' = loc.uto
                /\ UnsatisfiedTemporalDiffs' = loc.utd
                /\ ProvisionalEntry' = NoEntry
    /\ UNCHANGED <<UsesReordering, DataIsCBR, StreamCount, PosTableList, ElementSizeList,
                   SubRangeOffset, Index, emitted, nEmits>>
    /\ UNCHANGED <<fillVars, tblVars, srcVars, gcVars>>

\* void IndexManager::SetOffset(int SubStream, Position EditUnit, UInt64 Offset, int KeyOffset, int Flags)
\* also IndexManager::OfferOffset.  The edit unit is used as passed: it is
\* documented to be relative to the sub-range already.
SetOffset(SubStream, EditUnit, Offset, KeyOffset, Flags) ==
    /\ nOffers < MaxOffers
    /\ nOffers' = nOffers + 1
    /\ call' = [op |-> "SetOffset", EditUnit |-> EditUnit]
    /\ IF DataIsCBR
       THEN UNCHANGED <<dataVars, FormatFixed>>
       ELSE LET loc == LocateEntry(ManagedData, UnsatisfiedTemporalOffsets,
                                   UnsatisfiedTemporalDiffs, ProvisionalEntry,
                                   StreamCount, EditUnit)
            IN  /\ FormatFixed' = TRUE
                /\ ManagedData' =
                       IF loc.attached
                       THEN [loc.md EXCEPT ![EditUnit] =
                                SetPerEntry([@ EXCEPT !.Status = SetBit(@, HaveOffset),
                                                      !.StreamOffset[SubStream + 1] = Offset],
                                            SubStream, KeyOffset, Flags)]
                       ELSE loc.md
                /\ UnsatisfiedTemporalOffsets' = loc.uto
                /\ UnsatisfiedTemporalDiffs' = loc.utd
                /\ ProvisionalEntry' = NoEntry
    /\ UNCHANGED <<UsesReordering, DataIsCBR, StreamCount, PosTableList, ElementSizeList,
                   SubRangeOffset, Index, emitted, nEmits>>
    /\ UNCHANGED <<fillVars, tblVars, srcVars, gcVars>>

\* The key under which an unsatisfied temporal difference is recorded:
\*   UnsatisfiedTemporalDiffs.insert(std::pair<Position, int>(EditUnit, -Offset))
TemporalDiffKey(EditUnit, Offset) == EditUnit

\* The first half of SetTemporalOffset: record the offset on the provisional
\* entry, else on the managed entry, else as unsatisfied
RecordTemporalOffset(d, EditUnit, Offset) ==
    IF d.prov.Valid /\ EditUnit = d.prov.EditUnit
    THEN [d EXCEPT !.prov.Entry.Status = SetBit(@, HaveTemporalOffset),
                   !.prov.Entry.TemporalOffset = Offset]
    ELSE IF EditUnit \in DOMAIN d.md
    THEN [d EXCEPT !.md[EditUnit].Status = SetBit(@, HaveTemporalOffset),
                   !.md[EditUnit].TemporalOffset = Offset]
    ELSE [d EXCEPT !.uto = MapInsert(@, EditUnit, Offset)]

\* The second half: set the reverse offset (TemporalDiff) of EditUnit + Offset
RecordTemporalDiff(d, EditUnit, Offset) ==
    IF d.prov.Valid /\ (EditUnit + Offset) = d.prov.EditUnit
    THEN [d EXCEPT !.prov.Entry.Status = SetBit(@, HaveTemporalDiff),
                   !.prov.Entry.TemporalDiff = -Offset]
    ELSE IF (EditUnit + Offset) \in DOMAIN d.md
    THEN [d EXCEPT !.md[EditUnit + Offset].Status = SetBit(@, HaveTemporalDiff),
                   !.md[EditUnit + Offset].TemporalDiff = -Offset]
    ELSE [d EXCEPT !.utd = MapInsert(@, TemporalDiffKey(EditUnit, Offset), -Offset)]

\* void IndexManager::SetTemporalOffset(Position EditUnit, int Offset)
\* also IndexManager::OfferTemporalOffset
SetTemporalOffset(EditUnitArg, Offset) ==
    /\ nOffers < MaxOffers
    /\ nOffers' = nOffers + 1
    /\ call' = [op |-> "SetTemporalOffset", EditUnit |-> EditUnitArg, Offset |-> Offset]
    /\ IF DataIsCBR
       THEN UNCHANGED dataVars
       ELSE LET EditUnit == CorrectForSubRange(EditUnitArg, SubRangeOffset)
                d0 == [md |-> ManagedData, uto |-> UnsatisfiedTemporalOffsets,
                       utd |-> UnsatisfiedTemporalDiffs, prov |-> ProvisionalEntry]
                d2 == RecordTemporalDiff(RecordTemporalOffset(d0, EditUnit, Offset),
                                         EditUnit, Offset)
            IN  /\ ManagedData' = d2.md
                /\ UnsatisfiedTemporalOffsets' = d2.uto
                /\ UnsatisfiedTemporalDiffs' = d2.utd
                /\ ProvisionalEntry' = d2.prov
    /\ UNCHANGED <<formatVars, SubRangeOffset, Index, emitted, nEmits>>
    /\ UNCHANGED <<fillVars, tblVars, srcVars, gcVars>>

\* An offered edit unit that is not yet managed is buffered as the provisional
\* entry: a new entry, holding the per-entry values offered with it, under the
\* edit unit relative to the sub-range.  It replaces any entry buffered before.
BufferProvisional(EditUnitArg, KeyOffset, Flags) ==
    /\ ~DataIsCBR
    /\ nOffers < MaxOffers
    /\ LET EditUnit == CorrectForSubRange(EditUnitArg, SubRangeOffset)
       IN  /\ EditUnit \notin DOMAIN ManagedData
           /\ ProvisionalEntry' =
                  [Valid |-> TRUE, EditUnit |-> EditUnit,
                   Entry |-> SetPerEntry(NewIndexData(StreamCount), MasterStream,
                                         KeyOffset, Flags)]
    /\ call' = [op |-> "BufferProvisional", EditUnit |-> EditUnitArg]
    /\ UNCHANGED <<formatVars, ManagedData, UnsatisfiedTemporalOffsets,
                   UnsatisfiedTemporalDiffs, SubRangeOffset, Index, emitted,
                   nOffers, nEmits>>
    /\ UNCHANGED <<fillVars, tblVars, srcVars, gcVars>>

\* IndexTable::DefineDeltaArray(StreamCount, ElementSizeList): one delta
\* entry per stream; a zero-sized (VBR) element ends its slice, the element
\* delta restarts in each slice
RECURSIVE DeltaEntries(_, _, _, _)
DeltaEntries(sizes, i, Delta, Slice) ==
    IF i > Len(sizes) THEN << >>
    ELSE << DeltaEntry(0, Slice, Delta) >> \o
         DeltaEntries(sizes, i + 1,
                      IF sizes[i] = 0 THEN 0 ELSE Delta + sizes[i],
                      IF sizes[i] = 0 THEN Slice + 1 ELSE Slice)

\* The slice count it leaves in the table: the VBR elements before the last
SliceCountOf(sizes) == Cardinality({i \in 1 .. Len(sizes) - 1 : sizes[i] = 0})

DefineDeltaArray(tbl, sizes) ==
    [tbl EXCEPT !.BaseDeltaArray = DeltaEntries(sizes, 1, 0, 0),
                !.NSL = SliceCountOf(sizes)]

\* A newly constructed IndexTable
EmptyIndexTable ==
    [EditUnitByteCount |-> 0, BaseDeltaArray |-> << >>, NSL |-> 0, NPE |-> 0,
     SegmentMap |-> << >>, PreCharge |-> 0]

SumSeq_LastOnly(q, i) == q[Len(q)]
RECURSIVE SumSeq(_, _)
SumSeq(q, i) == IF i > Len(q) THEN 0 ELSE q[i] + SumSeq(q, i + 1)

\* "Once we have made an index table the format is very definately fixed"
FixedByMakeIndex_Kept(Fixed) == Fixed
FixedByMakeIndex(Fixed) == TRUE

\* The table MakeIndex builds: the delta array with the PosTable indices of
\* the streams, and the edit unit byte count if CBR
MadeIndex(n, sizes, posTables, isCBR) ==
    LET t == DefineDeltaArray(EmptyIndexTable, sizes)
    IN  [t EXCEPT !.BaseDeltaArray =
                      [i \in 1 .. n |-> [t.BaseDeltaArray[i] EXCEPT
                                            !.PosTableIndex = posTables[i]]],
                  !.EditUnitByteCount = IF isCBR THEN SumSeq(sizes, 1) ELSE 0]

\* IndexTablePtr IndexManager::MakeIndex(void)
MakeIndex ==
    /\ FormatFixed' = FixedByMakeIndex(FormatFixed)
    /\ Index' = MadeIndex(StreamCount, ElementSizeList, PosTableList, DataIsCBR)
    /\ call' = [op |-> "MakeIndex"]
    /\ emitted' = << >>
    /\ nEmits' = 0
    /\ UNCHANGED <<UsesReordering, DataIsCBR, StreamCount, PosTableList, ElementSizeList,
                   dataVars, SubRangeOffset, nOffers>>
    /\ UNCHANGED <<fillVars, tblVars, srcVars, gcVars>>

\* "Which bits in the status word show we can use the entry?"
StatusTest_NoDiff(Reordering, UndoReorder) ==
    IF Reordering THEN HaveOffset + HaveTemporalOffset ELSE HaveOffset
StatusTest(Reordering, UndoReorder) ==
    (IF Reordering THEN HaveOffset + HaveTemporalOffset ELSE HaveOffset)
    + (IF UndoReorder THEN HaveTemporalDiff ELSE 0)

\* "Determine the edit unit to add"
TargetEditUnit_AlwaysUndo(EditUnit, entry, UndoReorder) == EditUnit + entry.TemporalDiff
TargetEditUnit(EditUnit, entry, UndoReorder) ==
    IF UndoReorder THEN EditUnit + entry.TemporalDiff ELSE EditUnit

\* "Build the slice table": one slice offset per VBR element before the last
\* stream, zero when the next stream's offset is not known to be later
RECURSIVE SliceTable(_, _, _)
SliceTable(entry, sizes, i) ==
    IF i > Len(sizes) - 1 THEN << >>
    ELSE IF sizes[i] = 0
    THEN << IF entry.StreamOffset[i + 1] >= entry.StreamOffset[1]
            THEN entry.StreamOffset[i + 1] - entry.StreamOffset[1]
            ELSE 0 >> \o SliceTable(entry, sizes, i + 1)
    ELSE SliceTable(entry, sizes, i + 1)

\* The arguments of Index->AddIndexEntry for a managed entry (the PosTable
\* is not supported by the manager and passed empty)
IndexEntryOf(entry, sizes) ==
    [TemporalOffset |-> entry.TemporalOffset,
     KeyFrameOffset |-> entry.KeyOffset,
     Flags          |-> entry.Flags,
     StreamOffset   |-> entry.StreamOffset[1],
     SliceOffsets   |-> SliceTable(entry, sizes, 1),
     PosTable       |-> << >>,
     Garbage        |-> 0]

\* "Undo any reordering set in the index table if requested"
UndoTableReorder(tbl) ==
    [tbl EXCEPT !.BaseDeltaArray =
        [i \in 1 .. Len(tbl.BaseDeltaArray) |->
            IF tbl.BaseDeltaArray[i].PosTableIndex < 0
            THEN [tbl.BaseDeltaArray[i] EXCEPT !.PosTableIndex = 0]
            ELSE tbl.BaseDeltaArray[i]]]

\* The loop of AddEntriesToIndex over the managed entries in key order:
\* every complete entry is passed to Index->AddIndexEntry and counted
RECURSIVE EmitEntries(_, _, _, _, _, _)
EmitEntries(tbl, md, keys, sizes, Test, UndoReorder) ==
    IF keys = {} THEN [tbl |-> tbl, log |-> << >>]
    ELSE LET k == Min(keys)
         IN  IF ~HasAllBits(md[k].Status, Test)
             THEN EmitEntries(tbl, md, keys \ {k}, sizes, Test, UndoReorder)
             ELSE LET pos  == TargetEditUnit(k, md[k], UndoReorder)
                      r    == TableAddIndexEntry(tbl, pos, IndexEntryOf(md[k], sizes))
                      rest == EmitEntries(r.tbl, md, keys \ {k}, sizes, Test, UndoReorder)
                  IN  [tbl |-> rest.tbl,
                       log |-> << [EditUnit |-> k, Position |-> pos, ok |-> r.ok,
                                   Segment |-> r.key, Stored |-> r.stored,
                                   TemporalOffset |-> md[k].TemporalOffset,
                                   TemporalDiff |-> md[k].TemporalDiff] >> \o rest.log]

\* int IndexManager::AddEntriesToIndex(bool UndoReorder, IndexTablePtr Index)
\* over the whole range of edit units (the default FirstEditUnit and
\* LastEditUnit), on the table MakeIndex returned
AddEntriesToIndex(UndoReorder) ==
    /\ Index # NoResult
    /\ nEmits < MaxEmits
    /\ nEmits' = nEmits + 1
    /\ IF DataIsCBR \/ DOMAIN ManagedData = {}
       THEN /\ call' = [op |-> "AddEntriesToIndex", UndoReorder |-> UndoReorder, ret |-> 0]
            /\ emitted' = << >>
            /\ UNCHANGED Index
       ELSE LET t0 == IF UsesReordering /\ UndoReorder THEN UndoTableReorder(Index)
                                                       ELSE Index
                r  == EmitEntries(t0, ManagedData, DOMAIN ManagedData, ElementSizeList,
                                  StatusTest(UsesReordering, UndoReorder), UndoReorder)
            IN  /\ Index' = r.tbl
                /\ emitted' = r.log
                /\ call' = [op |-> "AddEntriesToIndex", UndoReorder |-> UndoReorder,
                            ret |-> Len(r.log)]
    /\ UNCHANGED <<formatVars, dataVars, SubRangeOffset, nOffers>>
    /\ UNCHANGED <<fillVars, tblVars, srcVars, gcVars>>

\* The calls that offer data to the manager
Offers ==
    \/ \E sub \in 0 .. StreamCount - 1, e \in 0 .. MaxEditUnit, v \in PerEntryValues :
          AddEditUnit(sub, e, v.KeyOffset, v.Flags)
    \/ \E sub \in 0 .. StreamCount - 1, e \in 0 .. MaxEditUnit, off \in StreamOffsets :
          SetOffset(sub, e, off, 0, -1)
    \/ \E e \in 0 .. MaxEditUnit, t \in -MaxTemporal .. MaxTemporal :
          SetTemporalOffset(e, t)

\* Configuring a manager (sub-streams, sub-range) and feeding it
MgrNext ==
    \/ \E p \in {-1, 0}, sz \in ElementSizes : AddSubStream(p, sz)
    \/ \E o \in 0 .. MaxSubRange : SetSubRangeOffset(o)
    \/ (nOffers < MaxConfiguredOffers /\ Offers)
    \/ MakeIndex

\* Feeding a manager as constructed and building index tables from it
EmitNext ==
    \/ Offers
    \/ MakeIndex
    \/ \E u \in BOOLEAN : AddEntriesToIndex(u)

\* Feeding a manager that buffers offered edit units provisionally
ProvisionalNext ==
    \/ \E o \in 0 .. MaxSubRange : SetSubRangeOffset(o)
    \/ \E e \in 0 .. MaxEditUnit, v \in PerEntryValues :
          BufferProvisional(e, v.KeyOffset, v.Flags)
    \/ Offers

(***************************************************************************)
(* SpecTable: an IndexTable is built through its own interface: parsed     *)
(* index table segments, AddSegment, GetSegment, AddIndexEntry and         *)
(* IndexSegment::AddIndexEntries                                           *)
(***************************************************************************)

\* Bounds of the table-building model
MaxTblCalls == 3
MaxStart == 2

\* The stream offset of an edit unit of the indexed essence
UnitOffset(EditUnit) == 100 * (EditUnit + 1)

\* Bytes of one stored index entry: 11 + 4 per slice offset + 8 per PosTable
EntryBytes(e) == 11 + 4 * Len(e.SliceOffsets) + 8 * Len(e.PosTable)

\* IndexEntryArray.Size of a segment: every addition appends its bytes
RECURSIVE SumEntryBytes(_, _)
SumEntryBytes(Entries, i) ==
    IF i > Len(Entries) THEN 0
    ELSE EntryBytes(Entries[i]) + SumEntryBytes(Entries, i + 1)

ArrayBytes(seg) == SumEntryBytes(seg.Entries, 1)

\* A pre-formed index entry of a segment's IndexEntryArray for one edit unit
PreformedEntry(EditUnit, SliceCount, PosCount) ==
    [TemporalOffset |-> 0,
     KeyFrameOffset |-> 0,
     Flags          |-> 128,
     StreamOffset   |-> UnitOffset(EditUnit),
     SliceOffsets   |-> [i \in 1 .. SliceCount |-> 8 * i],
     PosTable       |-> [i \in 1 .. PosCount |-> [Numerator |-> 1, Denominator |-> 2]]]

\* Count pre-formed entries for the edit units from First on
PreformedEntries(First, Count, SliceCount, PosCount) ==
    [i \in 1 .. Count |-> PreformedEntry(First + i - 1, SliceCount, PosCount)]

\* The size test of IndexSegment::AddIndexEntries:
\*   NewSize = (EntryCount * IndexEntrySize) + (Count * Size);  if(NewSize > 0xffff) fail
EntriesHaveRoom_Always(tbl, seg, Count, Size) == TRUE
EntriesHaveRoom(tbl, seg, Count, Size) ==
    seg.EntryCount * IndexEntrySize(tbl) + Count * Size <= MaxSegmentBytes

\* IndexSegment::AddIndexEntries: ok and the segment afterwards
SegAddIndexEntries(tbl, seg, Count, Size, Entries, AllowOverSize) ==
    IF Size # IndexEntrySize(tbl)
    THEN [ok |-> FALSE, seg |-> seg]
    ELSE IF ~AllowOverSize /\ ~EntriesHaveRoom(tbl, seg, Count, Size)
    THEN [ok |-> FALSE, seg |-> seg]
    ELSE [ok |-> TRUE,
          seg |-> [seg EXCEPT !.Entries = @ \o Entries,
                              !.EntryCount = @ + Count]]

\* NSL and NPE after a segment was parsed: "Copy index entry bits..."
ParsedCounts(tbl, s) == [NSL |-> s.SliceCount, NPE |-> s.PosTableCount]

\* IndexTable::AddSegment(UInt8 const *pSegment, ...) for a well-formed
\* segment s that carries an IndexEntryArray: a CBR segment (or any segment
\* met while EditUnitByteCount is set) only loads the byte count and the base
\* delta array; a VBR segment is added at its start position, takes its
\* delta array, overwrites NSL and NPE and loads its entries over-size
ParseSegment(tbl, s) ==
    LET ByteCount == IF s.HasByteCount THEN s.EditUnitByteCount
                                       ELSE tbl.EditUnitByteCount
    IN  IF ByteCount # 0
        THEN [tbl EXCEPT !.EditUnitByteCount = ByteCount,
                         !.BaseDeltaArray =
                             IF s.DeltaEntryArray # << >> THEN s.DeltaEntryArray ELSE @]
        ELSE LET t1   == AddSegment([tbl EXCEPT !.EditUnitByteCount = ByteCount],
                                    s.StartPosition)
                 cnt  == ParsedCounts(tbl, s)
                 t2   == [t1 EXCEPT
                             !.NSL = cnt.NSL,
                             !.NPE = cnt.NPE,
                             !.BaseDeltaArray =
                                 IF @ = << >> THEN s.DeltaEntryArray
                                              ELSE @,
                             !.SegmentMap[s.StartPosition].DeltaArray =
                                 s.DeltaEntryArray]
                 seg  == t2.SegmentMap[s.StartPosition]
                 load == SegAddIndexEntries(t2, seg, s.EntryCount, IndexEntrySize(t2),
                                            s.Entries, TRUE)
             IN  IF s.EntrySize # IndexEntrySize(t2)
                 THEN t2
                 ELSE [t2 EXCEPT !.SegmentMap[s.StartPosition] = load.seg]

\* What the segments offered for parsing carry: no slices and no delta
\* array; one slice boundary; 94 slices and 255 PosTable entries (entries of
\* 2427 bytes, 27 of which make 65529 bytes)
SegmentHeaders ==
    { [SliceCount |-> 0, PosTableCount |-> 0, DeltaEntryArray |-> << >>],
      [SliceCount |-> 1, PosTableCount |-> 0,
       DeltaEntryArray |-> << DeltaEntry(-1, 0, 0), DeltaEntry(-1, 1, 0) >>],
      [SliceCount |-> 94, PosTableCount |-> 255,
       DeltaEntryArray |-> << DeltaEntry(-1, 0, 0) >>] }

EntryCountsOf(h) == IF h.SliceCount > 1 THEN {27, 28} ELSE {1, 2}

SegmentFile(p, h, n, size, cbr) ==
    [HasByteCount      |-> cbr,
     EditUnitByteCount |-> IF cbr THEN CBRBytes ELSE 0,
     StartPosition     |-> p,
     SliceCount        |-> h.SliceCount,
     PosTableCount     |-> h.PosTableCount,
     DeltaEntryArray   |-> h.DeltaEntryArray,
     EntryCount        |-> n,
     EntrySize         |-> size,
     Entries           |-> PreformedEntries(p, n, h.SliceCount, h.PosTableCount)]

\* The index table segments offered for parsing: VBR segments whose entry
\* size agrees with their slice and PosTable counts, VBR segments that claim
\* 11-byte entries whatever their counts, and CBR segments
ParsedSegments ==
    UNION { { SegmentFile(p, h, n, 11 + 4 * h.SliceCount + 8 * h.PosTableCount, FALSE) :
                  p \in 0 .. MaxStart, n \in EntryCountsOf(h) } : h \in SegmentHeaders }
    \cup { SegmentFile(p, h, 1, 11, FALSE) : p \in 0 .. MaxStart, h \in SegmentHeaders }
    \cup { SegmentFile(0, h, 0, 11, TRUE) : h \in SegmentHeaders }

\* Edit units offered to the table: the first ones and the free slot at the
\* end of each segment
TblPositions(tbl) ==
    (0 .. MaxStart) \cup
    { tbl.SegmentMap[k].StartPosition + tbl.SegmentMap[k].EntryCount :
          k \in DOMAIN tbl.SegmentMap }

\* Slice and PosTable counts of the entries offered: those of the table, one
\* slice too many, one PosTable entry too many
EntryShapes(tbl) ==
    { [SliceCount |-> tbl.NSL,     PosCount |-> tbl.NPE],
      [SliceCount |-> tbl.NSL + 1, PosCount |-> tbl.NPE],
      [SliceCount |-> tbl.NSL,     PosCount |-> tbl.NPE + 1] }

\* The entry offered for an edit unit
UnitEntry(EditUnit, shape) ==
    PreformedEntry(EditUnit, shape.SliceCount, shape.PosCount) @@ [Garbage |-> 0]

TableInit ==
    /\ Table = EmptyIndexTable
    /\ lookIn = NoResult
    /\ Ret = NoResult
    /\ tblCall = NoResult
    /\ nTblCalls = 0

\* IndexTable::AddIndexEntry
TabAddIndexEntry ==
    /\ nTblCalls < MaxTblCalls
    /\ \E EditUnit \in TblPositions(Table), shape \in EntryShapes(Table) :
          LET r == TableAddIndexEntry(Table, EditUnit, UnitEntry(EditUnit, shape))
          IN  /\ Table' = r.tbl
              /\ tblCall' = [op |-> "AddIndexEntry", EditUnit |-> EditUnit,
                             SliceCount |-> shape.SliceCount,
                             PosCount |-> shape.PosCount,
                             ok |-> r.ok, key |-> r.key, stored |-> r.stored]
    /\ nTblCalls' = nTblCalls + 1
    /\ UNCHANGED <<lookIn, Ret>>
    /\ UNCHANGED <<fillVars, mgrVars, srcVars, gcVars>>

\* IndexTable::AddSegment(Int64 StartPosition)
TabAddSegment ==
    /\ nTblCalls < MaxTblCalls
    /\ \E StartPosition \in 0 .. MaxStart :
          /\ Table' = AddSegment(Table, StartPosition)
          /\ tblCall' = [op |-> "AddSegment", StartPosition |-> StartPosition]
    /\ nTblCalls' = nTblCalls + 1
    /\ UNCHANGED <<lookIn, Ret>>
    /\ UNCHANGED <<fillVars, mgrVars, srcVars, gcVars>>

\* IndexTable::GetSegment
TabGetSegment ==
    /\ nTblCalls < MaxTblCalls
    /\ \E EditUnit \in TblPositions(Table) :
          LET g == GetSegment(Table, EditUnit)
          IN  /\ Table' = g.tbl
              /\ tblCall' = [op |-> "GetSegment", EditUnit |-> EditUnit, key |-> g.key]
    /\ nTblCalls' = nTblCalls + 1
    /\ UNCHANGED <<lookIn, Ret>>
    /\ UNCHANGED <<fillVars, mgrVars, srcVars, gcVars>>

\* IndexTable::AddSegment(UInt8 const *pSegment, Length Size, int LenSize)
TabParseSegment ==
    /\ nTblCalls < MaxTblCalls
    /\ \E s \in ParsedSegments :
          /\ Table' = ParseSegment(Table, s)
          /\ tblCall' = [op |-> "ParseSegment", StartPosition |-> s.StartPosition,
                         SliceCount |-> s.SliceCount,
                         PosTableCount |-> s.PosTableCount,
                         EntryCount |-> s.EntryCount, EntrySize |-> s.EntrySize,
                         CBR |-> s.HasByteCount]
    /\ nTblCalls' = nTblCalls + 1
    /\ UNCHANGED <<lookIn, Ret>>
    /\ UNCHANGED <<fillVars, mgrVars, srcVars, gcVars>>

\* IndexSegment::AddIndexEntries(Count, Size, Entries) on a segment of the
\* table, with the entries of the edit units that follow the segment's last
TabAddIndexEntries ==
    /\ nTblCalls < MaxTblCalls
    /\ \E k \in DOMAIN Table.SegmentMap, Count \in {1, 27}, fits \in BOOLEAN :
          LET seg   == Table.SegmentMap[k]
              nsl   == IF fits THEN Table.NSL ELSE Table.NSL + 1
              Size  == 11 + 4 * nsl + 8 * Table.NPE
              r     == SegAddIndexEntries(Table, seg, Count, Size,
                           PreformedEntries(seg.StartPosition + seg.EntryCount,
                                            Count, nsl, Table.NPE), FALSE)
          IN  /\ Table' = [Table EXCEPT !.SegmentMap[k] = r.seg]
              /\ tblCall' = [op |-> "AddIndexEntries", key |-> k, Count |-> Count,
                             Size |-> Size, ok |-> r.ok]
    /\ nTblCalls' = nTblCalls + 1
    /\ UNCHANGED <<lookIn, Ret>>
    /\ UNCHANGED <<fillVars, mgrVars, srcVars, gcVars>>

TableNext ==
    \/ TabAddIndexEntry
    \/ TabAddSegment
    \/ TabGetSegment
    \/ TabParseSegment
    \/ TabAddIndexEntries

(***************************************************************************)
(* SpecSource: an ESP_EssenceSource over an essence sub-parser.  The file   *)
(* is a run of wrapping units; a byte is named by its offset in the file,   *)
(* a DataChunk is the run of bytes it holds                                 *)
(***************************************************************************)

\* Bounds of the essence source model
MaxUnits == 2
MaxUnitBytes == 3
MaxSizeArg == 3

\* CachedDataSize = static_cast<size_t>(-1): no size cached
NoCachedSize == -1

\* A NULL DataChunkPtr and a chunk holding bytes
NullChunk == [null |-> TRUE, bytes |-> << >>]
Chunk(b) == [null |-> FALSE, bytes |-> b]

\* Size of the file and start of its i-th wrapping unit
RECURSIVE UnitStart(_, _)
UnitStart(units, i) == IF i = 1 THEN 0 ELSE UnitStart(units, i - 1) + units[i - 1]

FileSize(units) == UnitStart(units, Len(units) + 1)

\* The wrapping unit (its number) that holds a byte
UnitOfByte(units, off) ==
    CHOOSE i \in 1 .. Len(units) :
        UnitStart(units, i) <= off /\ off < UnitStart(units, i) + units[i]

\* FileReadChunk(File, Bytes): the bytes at the file pointer, as many as
\* asked for and the file has, and the file pointer behind them
FileReadChunk(units, p, Bytes) ==
    LET n == IF p.FilePtr + Bytes > FileSize(units) THEN FileSize(units) - p.FilePtr
                                                    ELSE Bytes
    IN  [chunk  |-> Chunk([i \in 1 .. n |-> p.FilePtr + i - 1]),
         parser |-> [p EXCEPT !.FilePtr = @ + n]]

\* MPEG2_VES_EssenceSubParser::ReadInternal for one edit unit: nothing once
\* the end of the stream was seen, the cached size if there is one, else the
\* scan from CurrentPos to the start of the next picture (or the end of the
\* file, which ends the stream); the file pointer is put back to the start
\* of the unit scanned
ReadInternal(units, p) ==
    IF p.EndOfStream THEN [p EXCEPT !.CachedDataSize = 0]
    ELSE IF p.CachedDataSize # NoCachedSize THEN p
    ELSE IF p.CurrentPos >= FileSize(units)
    THEN [p EXCEPT !.CachedDataSize = 0, !.EndOfStream = TRUE, !.FilePtr = p.CurrentPos]
    ELSE LET u    == UnitOfByte(units, p.CurrentPos)
             next == UnitStart(units, u) + units[u]
         IN  [p EXCEPT !.CachedDataSize = next - p.CurrentPos,
                       !.CurrentPos = next,
                       !.EndOfStream = (next >= FileSize(units)),
                       !.FilePtr = p.CurrentPos]

\* "Either use the cached value, or scan the stream and find out how many
\* bytes to read"
SizeKnown(units, p) ==
    IF p.CachedDataSize = NoCachedSize THEN ReadInternal(units, p) ELSE p

\* MPEG2_VES_EssenceSubParser::Read(InFile, Stream, 1): the next wrapping
\* unit whole, the cached size cleared
Read(units, p) ==
    LET p1 == SizeKnown(units, p)
        r  == FileReadChunk(units, p1, p1.CachedDataSize)
    IN  [chunk |-> r.chunk, parser |-> [r.parser EXCEPT !.CachedDataSize = NoCachedSize]]

\* The split of BaseGetEssenceData: a chunk larger than MaxSize is cut at
\* MaxSize and the rest kept as RemainingData
SplitAtMaxSize_DropRest(Data, MaxSize) ==
    IF MaxSize # 0 /\ Len(Data.bytes) > MaxSize
    THEN [Data |-> Chunk(SubSeq(Data.bytes, 1, MaxSize)), RemainingData |-> NullChunk]
    ELSE [Data |-> Data, RemainingData |-> NullChunk]
SplitAtMaxSize(Data, MaxSize) ==
    IF MaxSize # 0 /\ Len(Data.bytes) > MaxSize
    THEN [Data          |-> Chunk(SubSeq(Data.bytes, 1, MaxSize)),
          RemainingData |-> Chunk(SubSeq(Data.bytes, MaxSize + 1, Len(Data.bytes)))]
    ELSE [Data |-> Data, RemainingData |-> NullChunk]

\* ESP_EssenceSource::BaseGetEssenceData(Size, MaxSize): the source and the
\* parser afterwards and the chunk returned (MaxSize stays below 2^32, where
\* (UInt32)MaxSize is MaxSize)
BaseGetEssenceData(units, src, p, Size, MaxSize) ==
    LET rd    == IF ~src.RemainingData.null
                 THEN [chunk |-> src.RemainingData, parser |-> p]
                 ELSE Read(units, p)
        Data  == IF rd.chunk.null \/ Len(rd.chunk.bytes) = 0
                 THEN [Data |-> NullChunk, RemainingData |-> NullChunk]
                 ELSE SplitAtMaxSize(rd.chunk, MaxSize)
    IN  [source |-> [src EXCEPT !.Started = TRUE,
                                !.RemainingData = Data.RemainingData,
                                !.AtEndOfData = IF Data.Data.null THEN TRUE ELSE @],
         parser |-> rd.parser,
         Data   |-> Data.Data]

\* "Hard limit to MaxSize", "Also limit to Size"
LimitBytes_SizeOnly(Bytes, Size, MaxSize) ==
    IF Size # 0 /\ Bytes > Size THEN Size ELSE Bytes
LimitBytes(Bytes, Size, MaxSize) ==
    LET b == IF MaxSize # 0 /\ Bytes > MaxSize THEN MaxSize ELSE Bytes
    IN  IF Size # 0 /\ b > Size THEN Size ELSE b

\* MPEG2_VES_EssenceSubParser::ESP_EssenceSource::GetEssenceData(Size, MaxSize)
VESGetEssenceData(units, src, p, Size, MaxSize) ==
    LET p1     == IF src.BytesRemaining = 0 THEN SizeKnown(units, p) ELSE p
        Remain == IF src.BytesRemaining = 0 THEN p1.CachedDataSize
                                            ELSE src.BytesRemaining
        p2     == IF src.BytesRemaining = 0
                  THEN [p1 EXCEPT !.CachedDataSize = NoCachedSize] ELSE p1
        Bytes  == LimitBytes(Remain, Size, MaxSize)
        r      == FileReadChunk(units, p2, Bytes)
    IN  IF Remain = 0
        THEN [source |-> [src EXCEPT !.BytesRemaining = 0, !.AtEndOfData = TRUE],
              parser |-> p2,
              Data   |-> NullChunk]
        ELSE [source |-> [src EXCEPT !.BytesRemaining = Remain - Bytes],
              parser |-> r.parser,
              Data   |-> r.chunk]

\* ESP_EssenceSource::EndOfItem
EndOfItem(src) ==
    IF src.WrapType = "Clip" THEN src.AtEndOfData ELSE src.RemainingData.null

\* ESP_EssenceSource::EndOfData
EndOfData_Started(src) == src.Started
EndOfData(src) == src.AtEndOfData

\* The essence files: up to MaxUnits wrapping units of 1..MaxUnitBytes bytes
EssenceFiles == UNION { [1 .. n -> 1 .. MaxUnitBytes] : n \in 0 .. MaxUnits }

\* The sub-parser after Use() and before any read
NewParser ==
    [CachedDataSize |-> NoCachedSize, CurrentPos |-> 0, EndOfStream |-> FALSE,
     FilePtr |-> 0]

\* The source after construction, for the way it is wrapped
NewSource(Kind, WrapType) ==
    [Kind |-> Kind, WrapType |-> WrapType, RemainingData |-> NullChunk,
     BytesRemaining |-> 0, AtEndOfData |-> FALSE, Started |-> FALSE]

SrcIdle ==
    /\ FileUnits = NoResult
    /\ Parser = NoResult
    /\ Source = NoResult
    /\ srcCall = NoResult
    /\ delivered = << >>

VesIdle == VES = NoResult /\ vesCall = NoResult
LayIdle == Layout = NoResult /\ layCall = NoResult
GcwIdle == StreamTable = << >> /\ gcwCall = NoResult
RoIdle == Reorderer = NoResult /\ roCall = NoResult /\ nRoCalls = 0
GcIdle == VesIdle /\ LayIdle /\ GcwIdle /\ RoIdle

SourceInit ==
    /\ FileUnits \in EssenceFiles
    /\ Parser = NewParser
    /\ Source \in {NewSource(k, w) : k \in {"Base", "VES"}, w \in {"Frame", "Clip"}}
    /\ srcCall = NoResult
    /\ delivered = << >>

\* The result of a GetEssenceData call is taken over
TakeResult(r, Size, MaxSize) ==
    /\ Source' = r.source
    /\ Parser' = r.parser
    /\ srcCall' = [op |-> "GetEssenceData", Size |-> Size, MaxSize |-> MaxSize,
                   Data |-> r.Data]
    /\ delivered' = delivered \o r.Data.bytes
    /\ UNCHANGED FileUnits
    /\ UNCHANGED <<fillVars, tblVars, mgrVars, gcVars>>

\* GetEssenceData on a source that uses the base implementation
SrcBaseGetEssenceData ==
    /\ Source.Kind = "Base"
    /\ \E Size \in 0 .. MaxSizeArg, MaxSize \in 0 .. MaxSizeArg :
          TakeResult(BaseGetEssenceData(FileUnits, Source, Parser, Size, MaxSize),
                    Size, MaxSize)

\* GetEssenceData on the source of the MPEG2 video elementary stream parser
SrcVESGetEssenceData ==
    /\ Source.Kind = "VES"
    /\ \E Size \in 0 .. MaxSizeArg, MaxSize \in 0 .. MaxSizeArg :
          TakeResult(VESGetEssenceData(FileUnits, Source, Parser, Size, MaxSize),
                    Size, MaxSize)

SourceNext ==
    \/ SrcBaseGetEssenceData
    \/ SrcVESGetEssenceData

(***************************************************************************)
(* SpecRate: the edit rate of an MPEG2_VES_EssenceSubParser.  The doubles   *)
(* of SetEditRate are quotients of small integers, compared here as exact   *)
(* fractions                                                               *)
(***************************************************************************)

\* Bound of the rate model: pictures read
MaxPicture == 4

Rational(n, d) == [Numerator |-> n, Denominator |-> d]

\* The two wrapping options IdentifyWrappingOptions builds
FrameWrap == [Name |-> "frame", ThisWrapType |-> "Frame", CanSlave |-> FALSE]
ClipWrap == [Name |-> "clip", ThisWrapType |-> "Clip", CanSlave |-> TRUE]
WrappingOptions == {FrameWrap, ClipWrap}

\* NativeEditRate as the sequence header gives it: FrameRate/1, or
\* FrameRate*1000/1001 with DropFrame
NativeEditRates ==
    {Rational(f, 1) : f \in {0, 2, 4}} \cup {Rational(f * 1000, 1001) : f \in {0, 2, 4}}

\* The edit rates asked for
EditRates ==
    {Rational(n, d) : n \in {0, 1, 2, 4, 8}, d \in {0, 1, 2}}
        \cup {Rational(1000, 1001), Rational(2000, 1001)}

\* MPEG2_VES_EssenceSubParser::Use
Use(ves, UseWrapping) ==
    [ves EXCEPT !.SelectedWrapping = UseWrapping,
                !.SelectedEditRate = ves.NativeEditRate,
                !.EditRatio = 1,
                !.PictureNumber = 0]

\* EditRate is NativeEditRate, member by member
IsNative(ves, EditRate) ==
    /\ EditRate.Numerator = ves.NativeEditRate.Numerator
    /\ EditRate.Denominator = ves.NativeEditRate.Denominator

\* FloatNative == FloatUse, both denominators not 0
SameRate(Native, EditRate) ==
    Native.Numerator * EditRate.Denominator = EditRate.Numerator * Native.Denominator

\* Ratio == floor(Ratio) for Ratio = FloatNative / FloatUse, FloatUse not 0
WholeRatio(Native, EditRate) ==
    (Native.Numerator * EditRate.Denominator)
        % (EditRate.Numerator * Native.Denominator) = 0

\* (unsigned int)(Ratio)
RatioOf(Native, EditRate) ==
    (Native.Numerator * EditRate.Denominator)
        \div (EditRate.Numerator * Native.Denominator)

\* MPEG2_VES_EssenceSubParser::SetEditRate: the parser afterwards and the
\* value returned
SetEditRate(ves, EditRate) ==
    IF IsNative(ves, EditRate) THEN [ves |-> ves, ret |-> TRUE]
    ELSE IF ves.SelectedWrapping.ThisWrapType = "Clip"
    THEN [ves |-> [ves EXCEPT !.SelectedEditRate = EditRate], ret |-> TRUE]
    ELSE IF ves.NativeEditRate.Denominator = 0 THEN [ves |-> ves, ret |-> FALSE]
    ELSE IF EditRate.Denominator = 0 THEN [ves |-> ves, ret |-> FALSE]
    ELSE IF SameRate(ves.NativeEditRate, EditRate)
    THEN [ves |-> [ves EXCEPT !.SelectedEditRate = EditRate], ret |-> TRUE]
    ELSE IF EditRate.Numerator = 0 THEN [ves |-> ves, ret |-> FALSE]
    ELSE IF WholeRatio(ves.NativeEditRate, EditRate)
    THEN [ves |-> [ves EXCEPT !.EditRatio = RatioOf(ves.NativeEditRate, EditRate)],
          ret |-> TRUE]
    ELSE [ves |-> ves, ret |-> FALSE]

\* floor(Pos + 0.5) for Pos = n / d, n >= 0, d > 0
RoundHalfUp(n, d) == (2 * n + d) \div (2 * d)

\* "Prevent divide by zero" as written:
\* (SelectedEditRate.Denominator == 0) || (NativeEditRate.Denominator || 0)
RateGuard(ves) ==
    ves.SelectedEditRate.Denominator = 0 \/ (ves.NativeEditRate.Denominator # 0 \/ FALSE)

\* MPEG2_VES_EssenceSubParser::GetCurrentPosition: the values it can return.
\* Past the guard NativeEditRate.Denominator is 0, so Pos is 0 divided by
\* SelectedEditRate.Denominator * NativeEditRate.Numerator; with that
\* product 0 the quotient is not a number and its conversion is undefined
GetCurrentPosition(ves) ==
    IF IsNative(ves, ves.SelectedEditRate) THEN {ves.PictureNumber}
    ELSE IF RateGuard(ves) THEN {0}
    ELSE IF ves.SelectedEditRate.Denominator * ves.NativeEditRate.Numerator = 0
    THEN 0 .. MaxPicture
    ELSE {RoundHalfUp(ves.PictureNumber * ves.SelectedEditRate.Numerator
                          * ves.NativeEditRate.Denominator,
                      ves.SelectedEditRate.Denominator * ves.NativeEditRate.Numerator)}

\* The sub-parser after the essence was identified and a wrapping selected
RateInit ==
    /\ VES \in {Use([NativeEditRate |-> n, SelectedEditRate |-> n, EditRatio |-> 1,
                     SelectedWrapping |-> w, PictureNumber |-> 0], w) :
                    n \in NativeEditRates, w \in WrappingOptions}
    /\ vesCall = NoResult

VesUse ==
    \E w \in WrappingOptions :
        /\ VES' = Use(VES, w)
        /\ vesCall' = [op |-> "Use", EditRate |-> VES.NativeEditRate,
                       before |-> VES.SelectedEditRate, ret |-> 0]
        /\ UNCHANGED <<fillVars, tblVars, mgrVars, srcVars, layVars, gcwVars, roVars>>

VesSetEditRate ==
    \E EditRate \in EditRates :
        LET r == SetEditRate(VES, EditRate)
        IN  /\ VES' = r.ves
            /\ vesCall' = [op |-> "SetEditRate", EditRate |-> EditRate,
                           before |-> VES.SelectedEditRate,
                           ret |-> IF r.ret THEN 1 ELSE 0]
            /\ UNCHANGED <<fillVars, tblVars, mgrVars, srcVars, layVars, gcwVars, roVars>>

\* ReadInternal finds Count * EditRatio pictures and counts each
VesReadPictures ==
    /\ VES.PictureNumber + VES.EditRatio <= MaxPicture
    /\ VES' = [VES EXCEPT !.PictureNumber = @ + VES.EditRatio]
    /\ vesCall' = [op |-> "Read", EditRate |-> VES.SelectedEditRate,
                   before |-> VES.SelectedEditRate, ret |-> 0]
    /\ UNCHANGED <<fillVars, tblVars, mgrVars, srcVars, layVars, gcwVars, roVars>>

VesGetCurrentPosition ==
    \E ret \in GetCurrentPosition(VES) :
        /\ vesCall' = [op |-> "GetCurrentPosition", EditRate |-> VES.SelectedEditRate,
                       before |-> VES.SelectedEditRate, ret |-> ret]
        /\ UNCHANGED VES
        /\ UNCHANGED <<fillVars, tblVars, mgrVars, srcVars, layVars, gcwVars, roVars>>

RateNext ==
    \/ VesUse
    \/ VesSetEditRate
    \/ VesReadPictures
    \/ VesGetCurrentPosition

(***************************************************************************)
(* SpecLayout: a GCLayout tracker being offered the elements of a generic   *)
(* container as they are read                                              *)
(***************************************************************************)

\* Bounds of the layout model: elements in the GC being built, complete GCs
MaxFresh == 3
MaxGCs == 3

\* A GCElementKind of a GC element: item type (byte 13) and element number
GCElementKind(Item, Number) ==
    [IsValid |-> TRUE, Item |-> Item, Count |-> 1, ElementType |-> 1, Number |-> Number]

\* GC item types: system 0x14, picture 0x15, sound 0x16, data 0x17
GCElementKinds ==
    {GCElementKind(20, 0), GCElementKind(21, 0), GCElementKind(21, 1),
     GCElementKind(22, 0), GCElementKind(23, 0)}

\* GCElementKind::operator==
KindEq(L, R) ==
    IF ~L.IsValid /\ ~R.IsValid THEN TRUE
    ELSE /\ L.Item = R.Item
         /\ L.Count = R.Count
         /\ L.ElementType = R.ElementType
         /\ L.Number = R.Number

\* Item & 0xF
ItemKind(k) == k.Item % 16

\* GCLayout::GCLayout
NewLayout(refresh) ==
    [_current |-> << >>, _fresh |-> << >>, _valid |-> FALSE, _inconsistent |-> FALSE,
     _autorefresh |-> refresh, _pos |-> 0]

\* "start new": with _autorefresh the GC just built becomes the template
StartNew(lay, me) ==
    LET kept == IF lay._autorefresh
                THEN [lay EXCEPT !._current = lay._fresh, !._valid = TRUE,
                                 !._inconsistent = FALSE]
                ELSE lay
    IN  [kept EXCEPT !._fresh = <<me>>, !._pos = @ + 1]

\* GCLayout::Offer: the layout afterwards and the status returned
Offer(lay, me) ==
    IF ~lay._valid
    THEN IF lay._fresh = << >>
         THEN [lay |-> [lay EXCEPT !._fresh = <<me>>], ret |-> 3]
         ELSE IF \/ Len(lay._fresh) = 1 /\ KindEq(me, lay._fresh[Len(lay._fresh)])
                 \/ Len(lay._fresh) > 1 /\ KindEq(me, lay._fresh[1])
         THEN [lay |-> StartNew(lay, me), ret |-> 3]
         ELSE IF \/ ItemKind(me) > 4 /\ ItemKind(lay._fresh[Len(lay._fresh)]) = 7
                 \/ ItemKind(me) >= ItemKind(lay._fresh[Len(lay._fresh)])
         THEN [lay |-> [lay EXCEPT !._fresh = Append(@, me)], ret |-> 0]
         ELSE [lay |-> StartNew(lay, me), ret |-> 3]
    ELSE IF Len(lay._current) >= 1 /\ KindEq(me, lay._current[1])
         THEN [lay |-> [lay EXCEPT !._fresh = <<me>>, !._pos = @ + 1], ret |-> 3]
         ELSE LET fresh == Append(lay._fresh, me)
                  added == [lay EXCEPT !._fresh = fresh]
                  bad   == [lay |-> [added EXCEPT !._inconsistent = TRUE], ret |-> -1]
              IN  IF Len(fresh) > Len(lay._current) THEN bad
                  ELSE IF ~KindEq(me, lay._current[Len(lay._current)]) THEN bad
                  ELSE IF Len(fresh) = Len(lay._current) THEN [lay |-> added, ret |-> 2]
                  ELSE IF Len(fresh) = Len(lay._current) - 1 THEN [lay |-> added, ret |-> 1]
                  ELSE [lay |-> added, ret |-> 0]

\* GCLayout::Where: where the GC being built stands in the template
Where(lay) ==
    IF ~lay._valid \/ lay._current = << >> THEN -1
    ELSE IF Len(lay._fresh) = Len(lay._current) THEN 2
    ELSE IF Len(lay._fresh) = Len(lay._current) - 1 THEN 1
    ELSE IF Len(lay._fresh) = 1 THEN 3
    ELSE 0

\* GCLayout::ForceEnd: the GC being built becomes the template and is
\* cleared, then Where() decides the result
ForceEnd(lay) ==
    LET ended == [lay EXCEPT !._current = lay._fresh, !._inconsistent = FALSE,
                             !._fresh = << >>]
    IN  IF Where(ended) # 2
        THEN [lay |-> ended, ret |-> -1]
        ELSE [lay |-> [ended EXCEPT !._valid = TRUE], ret |-> 2]

LayoutInit ==
    /\ Layout \in {NewLayout(refresh) : refresh \in BOOLEAN}
    /\ layCall = NoResult

\* An element is offered; layCall keeps the layout the call found
LayOffer ==
    \E me \in GCElementKinds :
        LET r == Offer(Layout, me)
        IN  /\ Len(r.lay._fresh) <= MaxFresh
            /\ r.lay._pos <= MaxGCs
            /\ Layout' = r.lay
            /\ layCall' = [op |-> "Offer", me |-> me, ret |-> r.ret, before |-> Layout]
            /\ UNCHANGED <<fillVars, tblVars, mgrVars, srcVars, rateVars, gcwVars, roVars>>

\* GCLayout::Reset
LayReset ==
    \E refresh \in BOOLEAN :
        /\ Layout' = NewLayout(refresh)
        /\ layCall' = [op |-> "Reset", me |-> GCElementKind(20, 0), ret |-> 0,
                       before |-> Layout]
        /\ UNCHANGED <<fillVars, tblVars, mgrVars, srcVars, rateVars, gcwVars, roVars>>

\* GCLayout::ForceEnd
LayForceEnd ==
    LET r == ForceEnd(Layout)
    IN  /\ Layout' = r.lay
        /\ layCall' = [op |-> "ForceEnd", me |-> GCElementKind(20, 0), ret |-> r.ret,
                       before |-> Layout]
        /\ UNCHANGED <<fillVars, tblVars, mgrVars, srcVars, rateVars, gcwVars, roVars>>

LayoutNext ==
    \/ LayOffer
    \/ LayReset
    \/ LayForceEnd

(***************************************************************************)
(* SpecWriter: the essence elements registered with a GCWriter             *)
(***************************************************************************)

\* Bound of the writer model: elements registered
MaxElements == 3

\* The element types registered
GCElementTypes == {1, 2}

\* GCWriter::AddEssenceElement(EssenceType, ElementType): the next entry of
\* the stream table takes the item type and the element type, and its
\* index is the stream ID
AddEssenceElement(tbl, EssenceType, ElementType) ==
    [tbl |-> Append(tbl, [Type |-> EssenceType, Element |-> ElementType]),
     ret |-> Len(tbl)]

\* GCWriter::AddPictureElement(bool CPCompatible, unsigned int ElementType)
AddPictureElement(tbl, CPCompatible, ElementType) ==
    AddEssenceElement(tbl, IF CPCompatible THEN 5 ELSE 21, ElementType)

\* GCWriter::AddSoundElement(bool CPCompatible, unsigned int ElementType)
AddSoundElementFor(tbl, CPCompatible, ElementType) ==
    AddEssenceElement(tbl, IF CPCompatible THEN 6 ELSE 22, ElementType)

\* GCWriter::AddSoundElement(unsigned int ElementType)
AddSoundElement(tbl, ElementType) == AddPictureElement(tbl, FALSE, ElementType)

\* The result of an Add...Element call is taken over
Registered(op, CPCompatible, ElementType, r) ==
    /\ StreamTable' = r.tbl
    /\ gcwCall' = [op |-> op, CPCompatible |-> CPCompatible,
                   ElementType |-> ElementType, ret |-> r.ret]
    /\ UNCHANGED <<fillVars, tblVars, mgrVars, srcVars, rateVars, layVars, roVars>>

GcwAddPictureElement ==
    /\ Len(StreamTable) < MaxElements
    /\ \E CPCompatible \in BOOLEAN, ElementType \in GCElementTypes :
           Registered("AddPictureElement", CPCompatible, ElementType,
                      AddPictureElement(StreamTable, CPCompatible, ElementType))

GcwAddSoundElementFor ==
    /\ Len(StreamTable) < MaxElements
    /\ \E CPCompatible \in BOOLEAN, ElementType \in GCElementTypes :
           Registered("AddSoundElement(bool)", CPCompatible, ElementType,
                      AddSoundElementFor(StreamTable, CPCompatible, ElementType))

GcwAddSoundElement ==
    /\ Len(StreamTable) < MaxElements
    /\ \E ElementType \in GCElementTypes :
           Registered("AddSoundElement", FALSE, ElementType,
                      AddSoundElement(StreamTable, ElementType))

WriterInit == StreamTable = << >> /\ gcwCall = NoResult

WriterNext ==
    \/ GcwAddPictureElement
    \/ GcwAddSoundElementFor
    \/ GcwAddSoundElement

(***************************************************************************)
(* SpecWrite: IndexTable::WriteIndex on tables whose segments may start in  *)
(* the pre-charge, before edit unit 0                                      *)
(***************************************************************************)

\* Bounds of the write model: pre-charge edit units, last segment start
MaxPreCharge == 2
MaxWriteStart == 1

\* The index table segments WriteIndex writes into the buffer, by the start
\* position of the segment written: one segment for a CBR table
\* (EditUnitByteCount not 0), else one for each segment of the SegmentMap.
\* Of the items of a segment the IndexStartPosition and EditUnitByteCount
\* are kept.  NegPrecharge is Feature(FeatureNegPrechargeIndex)
WriteIndex_Unshifted(tbl, NegPrecharge) ==
    [k \in (IF tbl.EditUnitByteCount # 0 THEN {0} ELSE DOMAIN tbl.SegmentMap) |->
        [IndexStartPosition |-> IF tbl.EditUnitByteCount # 0 THEN 0 - tbl.PreCharge ELSE k,
         EditUnitByteCount |-> tbl.EditUnitByteCount]]
WriteIndex(tbl, NegPrecharge) ==
    IF tbl.EditUnitByteCount # 0
    THEN [k \in {0} |->
            [IndexStartPosition |-> IF NegPrecharge THEN 0 - tbl.PreCharge ELSE 0,
             EditUnitByteCount |-> tbl.EditUnitByteCount]]
    ELSE [k \in DOMAIN tbl.SegmentMap |->
            [IndexStartPosition |->
                 IF NegPrecharge THEN tbl.SegmentMap[k].StartPosition
                 ELSE tbl.SegmentMap[k].StartPosition + tbl.PreCharge,
             EditUnitByteCount |-> tbl.EditUnitByteCount]]

\* A new table with its pre-charge set, VBR or CBR
WriteInit ==
    /\ Table \in {[EmptyIndexTable EXCEPT !.PreCharge = p, !.EditUnitByteCount = b] :
                     p \in 0 .. MaxPreCharge, b \in {0, CBRBytes}}
    /\ lookIn = NoResult
    /\ Ret = NoResult
    /\ tblCall = NoResult
    /\ nTblCalls = 0

\* IndexTable::AddSegment(Int64 StartPosition), also in the pre-charge
WrAddSegment ==
    /\ \E StartPosition \in (0 - MaxPreCharge - 1) .. MaxWriteStart :
          /\ StartPosition \notin DOMAIN Table.SegmentMap
          /\ Table' = AddSegment(Table, StartPosition)
          /\ tblCall' = [op |-> "AddSegment", NegPrecharge |-> FALSE,
                         Written |-> << >>]
    /\ UNCHANGED <<lookIn, Ret, nTblCalls>>
    /\ UNCHANGED <<fillVars, mgrVars, srcVars, gcVars>>

\* IndexTable::WriteIndex with the feature set or not
WrWriteIndex ==
    /\ \E NegPrecharge \in BOOLEAN :
          tblCall' = [op |-> "WriteIndex", NegPrecharge |-> NegPrecharge,
                      Written |-> WriteIndex(Table, NegPrecharge)]
    /\ UNCHANGED <<Table, lookIn, Ret, nTblCalls>>
    /\ UNCHANGED <<fillVars, mgrVars, srcVars, gcVars>>

WriteNext ==
    \/ WrAddSegment
    \/ WrWriteIndex

(***************************************************************************)
(* SpecSupplied: an IndexManager adding its entries to an index table that *)
(* the application read from a file                                        *)
(***************************************************************************)

\* The index tables an application holds before the manager adds to them:
\* read from a one-entry index table segment without or with a PosTable
SuppliedTables ==
    { ParseSegment(EmptyIndexTable,
                   SegmentFile(0, [SliceCount |-> 0, PosTableCount |-> n,
                                   DeltaEntryArray |-> << DeltaEntry(n, 0, 0) >>],
                               1, 11 + 8 * n, FALSE)) : n \in {0, 1} }

\* The application passes such a table as the Index argument of the
\* AddEntriesToIndex calls that follow
SupplyIndex ==
    /\ Index = NoResult
    /\ \E t \in SuppliedTables : Index' = t
    /\ call' = [op |-> "SupplyIndex"]
    /\ emitted' = << >>
    /\ nEmits' = 0
    /\ UNCHANGED <<formatVars, dataVars, SubRangeOffset, nOffers>>
    /\ UNCHANGED <<fillVars, tblVars, srcVars, gcVars>>

\* Feeding a manager and adding its entries to a table read from a file
SuppliedNext ==
    \/ SupplyIndex
    \/ (nOffers < MaxConfiguredOffers /\ Offers)
    \/ \E u \in BOOLEAN : AddEntriesToIndex(u)

(***************************************************************************)
(* ReorderIndex: index entries collected out of order and committed to an  *)
(* IndexTable (SpecReorder)                                                *)
(***************************************************************************)

\* Bounds of the ReorderIndex model
MaxReorderPos == 2
MaxReorderCalls == 5

\* The entry sizes the modelled ReorderIndex is built with: no tables, or
\* one slice offset
ReorderEntrySizes == {11, 15}

\* What a byte of the data chunk that was never written can hold
UninitBytes == {0, 170}

\* The ReorderIndex with no data: EntryCount, CompleteEntryCount and
\* FirstPosition zero and the chunk of size 0
EmptyReorderIndex(Size) ==
    [FirstPosition |-> 0, EntryCount |-> 0, CompleteEntryCount |-> 0,
     IndexEntries |-> << >>, IndexEntrySize |-> Size]

\* IndexEntrySize bytes of the chunk that nothing has written yet
UnsetEntry(Size, Garbage) ==
    [TemporalOffset |-> Garbage, KeyFrameOffset |-> Garbage, Flags |-> Garbage,
     StreamOffset |-> Garbage,
     SliceOffsets |-> [i \in 1 .. (Size - 11) \div 4 |-> Garbage],
     PosTable |-> << >>]

\* IndexEntries.Resize(n * IndexEntrySize): the first bytes are kept, bytes
\* added hold anything
ResizeEntries(Data, n, Size, Garbage) ==
    IF n <= Len(Data) THEN SubSeq(Data, 1, n)
    ELSE Data \o [i \in 1 .. n - Len(Data) |-> UnsetEntry(Size, Garbage)]

\* The first step of SetEntry and SetTemporalOffset: FirstPosition of an
\* empty chunk becomes Pos; a Pos before FirstPosition makes room in front
\* and shifts the entries forwards
MakeRoomBefore(ro, Pos, Garbage) ==
    IF Len(ro.IndexEntries) = 0
    THEN [ro EXCEPT !.FirstPosition = Pos]
    ELSE IF Pos < ro.FirstPosition
    THEN LET d     == ro.FirstPosition - Pos
             grown == ResizeEntries(ro.IndexEntries, Len(ro.IndexEntries) + d,
                                    ro.IndexEntrySize, Garbage)
         IN  [ro EXCEPT
                 !.IndexEntries = [i \in 1 .. Len(grown) |->
                                     IF i > d /\ i <= d + ro.EntryCount
                                     THEN grown[i - d] ELSE grown[i]],
                 !.CompleteEntryCount = IF @ # 0 THEN @ + d ELSE @,
                 !.EntryCount = @ + d,
                 !.FirstPosition = Pos]
    ELSE ro

\* "Update the count": the chunk and EntryCount reach to the entry of Pos
ReachEntry(ro, Pos, Garbage) ==
    LET Entry == Pos - ro.FirstPosition
    IN  IF Entry >= ro.EntryCount
        THEN [ro EXCEPT !.IndexEntries = ResizeEntries(@, Entry + 1,
                                             ro.IndexEntrySize, Garbage),
                        !.EntryCount = Entry + 1]
        ELSE ro

\* ReorderIndex::SetEntry; the temporal offset is cleared only
\* if(Entry >= EntryCount), tested after EntryCount was updated
ReorderSetEntry(ro, Pos, Flags, AnchorOffset, Tables, Garbage) ==
    LET r1    == ReachEntry(MakeRoomBefore(ro, Pos, Garbage), Pos, Garbage)
        Entry == Pos - r1.FirstPosition
        old   == r1.IndexEntries[Entry + 1]
    IN  [r1 EXCEPT
            !.CompleteEntryCount = IF Entry >= @ THEN Entry + 1 ELSE @,
            !.IndexEntries[Entry + 1] =
                [TemporalOffset |-> IF Entry >= r1.EntryCount THEN 0
                                    ELSE old.TemporalOffset,
                 KeyFrameOffset |-> PutU8(AnchorOffset),
                 Flags          |-> PutU8(Flags),
                 StreamOffset   |-> 0,
                 SliceOffsets   |-> IF r1.IndexEntrySize > 11 THEN Tables
                                    ELSE old.SliceOffsets,
                 PosTable       |-> old.PosTable]]

\* ReorderIndex::SetStreamOffset: false for a position outside the entries
ReorderSetStreamOffset(ro, Pos, StreamOffset) ==
    IF Pos < ro.FirstPosition \/ Pos - ro.FirstPosition >= ro.EntryCount
    THEN [ok |-> FALSE, ro |-> ro]
    ELSE [ok |-> TRUE,
          ro |-> [ro EXCEPT !.IndexEntries[Pos - ro.FirstPosition + 1].StreamOffset =
                                StreamOffset]]

\* ReorderIndex::SetTemporalOffset
ReorderSetTemporalOffset(ro, Pos, TemporalOffset, Garbage) ==
    LET r1 == ReachEntry(MakeRoomBefore(ro, Pos, Garbage), Pos, Garbage)
    IN  [r1 EXCEPT !.IndexEntries[Pos - r1.FirstPosition + 1].TemporalOffset =
                       PutU8(TemporalOffset)]

\* "Shuffle data back in data chunk (or clear it)" after Count entries were
\* added to the segment
ShuffleBack(ro, Count, Garbage) ==
    IF ro.EntryCount <= Count
    THEN EmptyReorderIndex(ro.IndexEntrySize)
    ELSE LET NewCount == ro.EntryCount - Count
             Data     == ro.IndexEntries
             moved    == [i \in 1 .. Len(Data) |->
                             IF i <= NewCount /\ i + Count <= Len(Data)
                             THEN Data[i + Count] ELSE Data[i]]
             Entries  == IF ro.EntryCount > NewCount THEN ro.EntryCount - NewCount
                                                     ELSE 0
         IN  [ro EXCEPT
                 !.CompleteEntryCount = IF @ > NewCount THEN @ - NewCount ELSE 0,
                 !.EntryCount = Entries,
                 !.FirstPosition = IF @ > NewCount THEN @ - NewCount ELSE 0,
                 !.IndexEntries = ResizeEntries(moved, Entries + 1,
                                                ro.IndexEntrySize, Garbage)]

\* ReorderIndex::CommitEntries: the table and the ReorderIndex afterwards,
\* the count returned, and whether AddIndexEntries accepted the entries
CommitEntries(tbl, ro, CountArg, Garbage) ==
    LET g     == GetSegment(tbl, ro.FirstPosition)
        Count == IF CountArg < 0 \/ CountArg > ro.CompleteEntryCount
                 THEN ro.CompleteEntryCount ELSE CountArg
        r     == SegAddIndexEntries(g.tbl, g.tbl.SegmentMap[g.key], Count,
                     ro.IndexEntrySize,
                     ResizeEntries(ro.IndexEntries, Count, ro.IndexEntrySize, Garbage),
                     FALSE)
    IN  IF ~r.ok
        THEN [tbl |-> g.tbl, ro |-> ro, ret |-> 0, ok |-> FALSE]
        ELSE [tbl |-> [g.tbl EXCEPT !.SegmentMap[g.key] = r.seg],
              ro  |-> ShuffleBack(ro, Count, Garbage),
              ret |-> Count, ok |-> TRUE]

\* The tables a ReorderIndex commits to: no slices, or one slice boundary
ReorderTables == {EmptyIndexTable, DefineDeltaArray(EmptyIndexTable, <<0, 0>>)}

ReorderInit ==
    /\ Table \in ReorderTables
    /\ lookIn = NoResult
    /\ Ret = NoResult
    /\ tblCall = NoResult
    /\ nTblCalls = 0
    /\ \E Size \in ReorderEntrySizes : Reorderer = EmptyReorderIndex(Size)
    /\ roCall = NoResult
    /\ nRoCalls = 0

\* ReorderIndex::SetEntry
RoSetEntry ==
    /\ nRoCalls < MaxReorderCalls
    /\ \E Pos \in 0 .. MaxReorderPos, Garbage \in UninitBytes :
          /\ Reorderer' = ReorderSetEntry(Reorderer, Pos, 128, 0,
                              [i \in 1 .. (Reorderer.IndexEntrySize - 11) \div 4 |-> 8 * i],
                              Garbage)
          /\ roCall' = [op |-> "SetEntry", Pos |-> Pos]
    /\ nRoCalls' = nRoCalls + 1
    /\ UNCHANGED <<fillVars, tblVars, mgrVars, srcVars, rateVars, layVars, gcwVars>>

\* ReorderIndex::SetStreamOffset
RoSetStreamOffset ==
    /\ nRoCalls < MaxReorderCalls
    /\ \E Pos \in 0 .. MaxReorderPos :
          LET r == ReorderSetStreamOffset(Reorderer, Pos, UnitOffset(Pos))
          IN  /\ Reorderer' = r.ro
              /\ roCall' = [op |-> "SetStreamOffset", Pos |-> Pos, ok |-> r.ok]
    /\ nRoCalls' = nRoCalls + 1
    /\ UNCHANGED <<fillVars, tblVars, mgrVars, srcVars, rateVars, layVars, gcwVars>>

\* ReorderIndex::SetTemporalOffset
RoSetTemporalOffset ==
    /\ nRoCalls < MaxReorderCalls
    /\ \E Pos \in 0 .. MaxReorderPos, TemporalOffset \in {-1, 1},
          Garbage \in UninitBytes :
          /\ Reorderer' = ReorderSetTemporalOffset(Reorderer, Pos, TemporalOffset,
                                                   Garbage)
          /\ roCall' = [op |-> "SetTemporalOffset", Pos |-> Pos]
    /\ nRoCalls' = nRoCalls + 1
    /\ UNCHANGED <<fillVars, tblVars, mgrVars, srcVars, rateVars, layVars, gcwVars>>

\* ReorderIndex::CommitEntries(Index, Count)
RoCommitEntries ==
    /\ nRoCalls < MaxReorderCalls
    /\ \E CountArg \in {-1, 1, 2}, Garbage \in UninitBytes :
          LET r == CommitEntries(Table, Reorderer, CountArg, Garbage)
          IN  /\ Table' = r.tbl
              /\ Reorderer' = r.ro
              /\ roCall' = [op |-> "CommitEntries", ret |-> r.ret, ok |-> r.ok]
    /\ nRoCalls' = nRoCalls + 1
    /\ UNCHANGED <<lookIn, Ret, tblCall, nTblCalls>>
    /\ UNCHANGED <<fillVars, mgrVars, srcVars, rateVars, layVars, gcwVars>>

ReorderNext ==
    \/ RoSetEntry
    \/ RoSetStreamOffset
    \/ RoSetTemporalOffset
    \/ RoCommitEntries

(***************************************************************************)
(* Specifications                                                          *)
(***************************************************************************)

\* Each specification starts one part of the program and leaves the
\* variables of the other parts at rest
InitFill == FillInit /\ TblIdle /\ MgrIdle /\ SrcIdle /\ GcIdle
Init == MgrInit /\ FillIdle /\ TblIdle /\ SrcIdle /\ GcIdle
InitLookup == LookupInit /\ FillIdle /\ MgrIdle /\ SrcIdle /\ GcIdle
InitTable == TableInit /\ FillIdle /\ MgrIdle /\ SrcIdle /\ GcIdle
InitWrite == WriteInit /\ FillIdle /\ MgrIdle /\ SrcIdle /\ GcIdle
InitSource == SourceInit /\ FillIdle /\ TblIdle /\ MgrIdle /\ GcIdle
InitRate == RateInit /\ FillIdle /\ TblIdle /\ MgrIdle /\ SrcIdle /\ LayIdle /\ GcwIdle /\ RoIdle
InitLayout == LayoutInit /\ FillIdle /\ TblIdle /\ MgrIdle /\ SrcIdle /\ VesIdle /\ GcwIdle /\ RoIdle
InitWriter == WriterInit /\ FillIdle /\ TblIdle /\ MgrIdle /\ SrcIdle /\ VesIdle /\ LayIdle /\ RoIdle
InitReorder == ReorderInit /\ FillIdle /\ MgrIdle /\ SrcIdle /\ VesIdle /\ LayIdle /\ GcwIdle

SpecFill == InitFill /\ [][FillNext]_vars

Spec == Init /\ [][MgrNext]_vars

SpecEmit == Init /\ [][EmitNext]_vars

SpecProvisional == Init /\ [][ProvisionalNext]_vars

SpecSupplied == Init /\ [][SuppliedNext]_vars

SpecReorder == InitReorder /\ [][ReorderNext]_vars

SpecLookup == InitLookup /\ [][LookupNext]_vars

SpecTable == InitTable /\ [][TableNext]_vars

SpecSource == InitSource /\ [][SourceNext]_vars

SpecRate == InitRate /\ [][RateNext]_vars

SpecLayout == InitLayout /\ [][LayoutNext]_vars

SpecWriter == InitWriter /\ [][WriterNext]_vars

SpecWrite == InitWrite /\ [][WriteNext]_vars

(***************************************************************************)
(* Properties of the filler computation (SpecFill)                         *)
(***************************************************************************)

FillDone == fillOut # NoResult
EffectiveKAG == IF fillIn.KAGSize = 0 THEN 1 ELSE fillIn.KAGSize
FillRequired == IF fillIn.ForceBER4 THEN 20 ELSE 17

\* C3 as stated: whatever the position, the filler returned aligns the
\* position to the KAG and is at least 17 bytes (20 with a forced 4-byte BER)
C3_FillerLawAsStated ==
    FillDone =>
        /\ (fillIn.FillPos + fillOut.Fill) % EffectiveKAG = 0
        /\ fillOut.Fill >= FillRequired

\* C3 (amended): the size returned is 0 exactly when the position is already
\* aligned and otherwise at least 17 (20 when forced); unless the filler was
\* clamped at 0x00ffffff the position after the filler is a KAG multiple
C3_FillerLaw ==
    FillDone =>
        /\ (fillOut.Fill = 0) <=> (fillIn.FillPos % EffectiveKAG = 0)
        /\ fillOut.Fill # 0 => fillOut.Fill >= FillRequired
        /\ ~fillOut.Error => (fillIn.FillPos + fillOut.Fill) % EffectiveKAG = 0
        /\ ~fillOut.Error /\ fillOut.Fill # 0 =>
               fillOut.Fill - EffectiveKAG < FillRequired

\* A forced 4-byte BER filler that had to be raised by whole KAGs
C3_Witness ==
    /\ FillDone
    /\ fillIn.ForceBER4
    /\ fillOut.Fill > EffectiveKAG
    /\ fillOut.Fill >= 20
    /\ (fillIn.FillPos + fillOut.Fill) % EffectiveKAG = 0
    /\ EffectiveKAG - (fillIn.FillPos % EffectiveKAG) >= 17
    /\ EffectiveKAG - (fillIn.FillPos % EffectiveKAG) < 20

(***************************************************************************)
(* Properties of the look-up (SpecLookup)                                  *)
(***************************************************************************)

Looked == lookIn # NoResult

\* The segment holding the entry of EditUnit, as Lookup selects it
HasEntry(tbl, EditUnit) ==
    LET it == FindSegmentKey(tbl.SegmentMap, EditUnit)
    IN  /\ it.found
        /\ EditUnit <= tbl.SegmentMap[it.key].StartPosition
                         + tbl.SegmentMap[it.key].EntryCount - 1

SegmentOf(tbl, EditUnit) == tbl.SegmentMap[FindSegmentKey(tbl.SegmentMap, EditUnit).key]

EntryOf(tbl, EditUnit) ==
    SegmentOf(tbl, EditUnit).Entries[EditUnit - SegmentOf(tbl, EditUnit).StartPosition + 1]

\* The temporal offset stored for EditUnit, as a signed value
StoredTemporalOffset(tbl, EditUnit) ==
    LET b == EntryOf(tbl, EditUnit).TemporalOffset IN IF b >= 128 THEN b - 256 ELSE b

\* The sub-item is exempt from re-ordering: the segment has a delta array
\* and the sub-item has no delta entry or one with PosTableIndex >= 0
ExemptSubItem(tbl, EditUnit, SubItem) ==
    LET d == SegmentOf(tbl, EditUnit).DeltaArray
    IN  Len(d) # 0 /\ (SubItem >= Len(d) \/ d[SubItem + 1].PosTableIndex >= 0)

ReorderLookupOfStored ==
    /\ Looked
    /\ Table.EditUnitByteCount = 0
    /\ lookIn.Reorder
    /\ HasEntry(Table, lookIn.EditUnit)

\* C1 as stated: for every stored edit unit E with temporal offset D and
\* every sub-item, Lookup(E, SubItem, true).Location equals
\* Lookup(E + D, SubItem, false).Location
C1_ReorderLawAsStated ==
    ReorderLookupOfStored =>
        Ret.Location =
            Lookup(Table, lookIn.EditUnit + StoredTemporalOffset(Table, lookIn.EditUnit),
                   lookIn.SubItem, FALSE).Location

\* C1 (amended): the law holds for the sub-items subject to re-ordering (no
\* delta array in the segment, or a delta entry with PosTableIndex < 0); for
\* an exempt sub-item Lookup(E, SubItem, true) stays on E and returns the
\* Location of Lookup(E, SubItem, false)
C1_ReorderLaw ==
    ReorderLookupOfStored =>
        LET E == lookIn.EditUnit
            D == StoredTemporalOffset(Table, E)
        IN  IF ExemptSubItem(Table, E, lookIn.SubItem)
            THEN /\ Ret.Location = Lookup(Table, E, lookIn.SubItem, FALSE).Location
                 /\ Ret.ThisPos = E
            ELSE /\ Ret.Location = Lookup(Table, E + D, lookIn.SubItem, FALSE).Location
                 /\ HasEntry(Table, E + D) =>
                        /\ Ret.ThisPos = E + D
                        /\ lookIn.SubItem = 0 =>
                               Ret.Location = EntryOf(Table, E + D).StreamOffset

\* A re-ordered look-up that moved to another stored entry
C1_Witness ==
    /\ ReorderLookupOfStored
    /\ ~ExemptSubItem(Table, lookIn.EditUnit, lookIn.SubItem)
    /\ StoredTemporalOffset(Table, lookIn.EditUnit) # 0
    /\ HasEntry(Table, lookIn.EditUnit + StoredTemporalOffset(Table, lookIn.EditUnit))
    /\ Ret.ThisPos # lookIn.EditUnit
    /\ Ret.Location # EntryOf(Table, lookIn.EditUnit).StreamOffset

CBRLookup ==
    /\ Looked
    /\ Table.EditUnitByteCount # 0

\* C2 as stated: in a CBR table every sub-item with slice 0 is located at
\* E * EditUnitByteCount + BaseDeltaArray[SubItem].ElementDelta
C2_CBRLocationAsStated ==
    (/\ CBRLookup
     /\ lookIn.SubItem < Len(Table.BaseDeltaArray)
     /\ Table.BaseDeltaArray[lookIn.SubItem + 1].Slice = 0) =>
        Ret.Location = lookIn.EditUnit * Table.EditUnitByteCount
                       + Table.BaseDeltaArray[lookIn.SubItem + 1].ElementDelta

\* C2 (amended): sub-item 0 is located at E * EditUnitByteCount (the first
\* delta entry is not consulted); every other sub-item that has a delta
\* entry with slice 0 at E * EditUnitByteCount + its ElementDelta
C2_CBRLocation ==
    CBRLookup =>
        /\ lookIn.SubItem = 0 =>
               Ret.Location = lookIn.EditUnit * Table.EditUnitByteCount /\ Ret.Exact
        /\ (/\ lookIn.SubItem > 0
            /\ lookIn.SubItem < Len(Table.BaseDeltaArray)
            /\ Table.BaseDeltaArray[lookIn.SubItem + 1].Slice = 0) =>
               /\ Ret.Location = lookIn.EditUnit * Table.EditUnitByteCount
                          + Table.BaseDeltaArray[lookIn.SubItem + 1].ElementDelta
               /\ Ret.Exact

\* A CBR look-up of a later sub-item of a later edit unit
C2_Witness ==
    /\ CBRLookup
    /\ lookIn.EditUnit > 0
    /\ lookIn.SubItem > 0
    /\ lookIn.SubItem < Len(Table.BaseDeltaArray)
    /\ Table.BaseDeltaArray[lookIn.SubItem + 1].ElementDelta # 0
    /\ Ret.Exact
    /\ Ret.Location > lookIn.EditUnit * Table.EditUnitByteCount

(***************************************************************************)
(* Properties of the configured manager (Spec)                             *)
(***************************************************************************)

\* A step that performs the call now recorded in call
OfferStep(op) == call'.op = op /\ nOffers' = nOffers + 1

\* C4: once MakeIndex has been called the format is fixed and every later
\* AddSubStream call fails: it returns 0 and leaves the stream count, the
\* element sizes, the PosTable indices and the reordering and CBR flags as
\* they were
C4_NoSubStreamAfterMakeIndex ==
    [][/\ Index' # NoResult => FormatFixed'
       /\ (Index # NoResult /\ call'.op = "AddSubStream") =>
              /\ call'.ret = 0
              /\ UNCHANGED <<StreamCount, ElementSizeList, PosTableList,
                             UsesReordering, DataIsCBR>>]_vars

\* An AddSubStream refused on a manager that was offered nothing: only
\* MakeIndex has fixed its format, and there was room for another stream
C4_Witness ==
    /\ call.op = "AddSubStream"
    /\ call.ret = 0
    /\ Index # NoResult
    /\ nOffers = 0
    /\ StreamCount < MaxStreams

\* The managed edit unit an incoming position stands for
SubRanged(EditUnit) == EditUnit - SubRangeOffset

\* C7 as stated: with SubRangeOffset = S, AddEditUnit, SetOffset and
\* SetTemporalOffset all record against EditUnit - S
C7_SubRangeAsStated ==
    [][/\ (~DataIsCBR /\ (OfferStep("AddEditUnit") \/ OfferStep("SetOffset"))) =>
              DOMAIN ManagedData' = DOMAIN ManagedData \cup {SubRanged(call'.EditUnit)}
       /\ (~DataIsCBR /\ OfferStep("SetTemporalOffset")) =>
              IF SubRanged(call'.EditUnit) \in DOMAIN ManagedData
              THEN ManagedData'[SubRanged(call'.EditUnit)].TemporalOffset = call'.Offset
              ELSE SubRanged(call'.EditUnit) \in DOMAIN UnsatisfiedTemporalOffsets']_vars

\* C7 (amended): AddEditUnit and SetTemporalOffset (absolute positions)
\* record against EditUnit - S; SetOffset (a position relative to the
\* sub-range already) records against EditUnit as passed
C7_SubRange ==
    [][/\ (~DataIsCBR /\ OfferStep("AddEditUnit")) =>
              DOMAIN ManagedData' = DOMAIN ManagedData \cup {SubRanged(call'.EditUnit)}
       /\ (~DataIsCBR /\ OfferStep("SetOffset")) =>
              /\ DOMAIN ManagedData' = DOMAIN ManagedData \cup {call'.EditUnit}
              /\ HasBit(ManagedData'[call'.EditUnit].Status, HaveOffset)
       /\ (~DataIsCBR /\ OfferStep("SetTemporalOffset")) =>
              IF SubRanged(call'.EditUnit) \in DOMAIN ManagedData
              THEN /\ ManagedData'[SubRanged(call'.EditUnit)].TemporalOffset = call'.Offset
                   /\ HasBit(ManagedData'[SubRanged(call'.EditUnit)].Status,
                             HaveTemporalOffset)
              ELSE /\ SubRanged(call'.EditUnit) \in DOMAIN UnsatisfiedTemporalOffsets'
                   /\ DOMAIN ManagedData' = DOMAIN ManagedData]_vars

\* With a sub-range offset of 1, AddEditUnit(1) and SetOffset(1) have landed
\* on two managed entries: 0, without an offset, and 1, with it
C7_Witness ==
    /\ SubRangeOffset = 1
    /\ call.op = "SetOffset"
    /\ call.EditUnit = 1
    /\ DOMAIN ManagedData = {0, 1}
    /\ ~HasBit(ManagedData[0].Status, HaveOffset)
    /\ HasBit(ManagedData[1].Status, HaveOffset)

(***************************************************************************)
(* Properties of the tables built from a manager (SpecEmit)                *)
(***************************************************************************)

Emitted == call.op = "AddEntriesToIndex" /\ ~DataIsCBR /\ DOMAIN ManagedData # {}

\* The edit units an emitted entry refers to: through its temporal offset
\* and, when the reordering is undone, through its temporal difference
FarSide(x, UndoReorder) ==
    ({x.EditUnit + x.TemporalOffset}
         \cup (IF UndoReorder THEN {x.EditUnit + x.TemporalDiff} ELSE {}))
    \ {x.EditUnit}

\* A record is parked for edit unit u: a temporal offset or difference
\* under u, or the difference meant for u (SetTemporalOffset(E, D) records
\* the difference -D of E + D under E)
UnsatisfiedFor(u) ==
    \/ u \in DOMAIN UnsatisfiedTemporalOffsets
    \/ u \in DOMAIN UnsatisfiedTemporalDiffs
    \/ \E k \in DOMAIN UnsatisfiedTemporalDiffs : k - UnsatisfiedTemporalDiffs[k] = u

\* C6: no entry is emitted by AddEntriesToIndex while a temporal offset or
\* a temporal difference is still parked for an edit unit it refers to
C6_NoUnsatisfiedFarSide ==
    Emitted =>
        \A i \in 1 .. Len(emitted) :
            \A far \in FarSide(emitted[i], call.UndoReorder) : ~UnsatisfiedFor(far)

EmittedUnits == {emitted[i].EditUnit : i \in 1 .. Len(emitted)}

\* C8 as stated: whatever UndoReorder is, the entries emitted are those with
\* status bit 0 and, in a reordering manager, bit 1
C8_EligibleAsStated ==
    Emitted =>
        EmittedUnits =
            {e \in DOMAIN ManagedData :
                /\ HasBit(ManagedData[e].Status, HaveOffset)
                /\ UsesReordering => HasBit(ManagedData[e].Status, HaveTemporalOffset)}

\* C8 (amended): the entries emitted are those with status bit 0, in a
\* reordering manager bit 1 and, when UndoReorder is set, bit 2 (have
\* temporal difference); each is passed once and accepted by the table, and
\* the call returns their number
C8_Eligible ==
    Emitted =>
        /\ EmittedUnits =
               {e \in DOMAIN ManagedData :
                   /\ HasBit(ManagedData[e].Status, HaveOffset)
                   /\ UsesReordering => HasBit(ManagedData[e].Status, HaveTemporalOffset)
                   /\ call.UndoReorder => HasBit(ManagedData[e].Status, HaveTemporalDiff)}
        /\ Cardinality(EmittedUnits) = Len(emitted)
        /\ call.ret = Len(emitted)
        /\ \A i \in 1 .. Len(emitted) : emitted[i].ok

\* A reordering manager asked to undo the reordering emits an entry with
\* all three bits and withholds one that has its offset and temporal offset
\* but no temporal difference
C8_Witness ==
    /\ Emitted
    /\ call.UndoReorder
    /\ UsesReordering
    /\ emitted # << >>
    /\ \E e \in DOMAIN ManagedData \ EmittedUnits :
           /\ HasBit(ManagedData[e].Status, HaveOffset)
           /\ HasBit(ManagedData[e].Status, HaveTemporalOffset)

\* The first AddEntriesToIndex on a table, undoing the reordering
FirstUndo == Emitted /\ call.UndoReorder /\ nEmits = 1

\* C9: with UndoReorder set each emitted entry of managed edit unit E is
\* stored in the table at position E + TemporalDiff(E), and no two of them
\* at the same position
C9_UndoReorderPositions ==
    FirstUndo =>
        /\ \A i \in 1 .. Len(emitted) :
               /\ emitted[i].ok
               /\ emitted[i].Stored = emitted[i].EditUnit + emitted[i].TemporalDiff
        /\ \A i, j \in 1 .. Len(emitted) :
               i # j => emitted[i].Stored # emitted[j].Stored

\* C10 as stated: the positions passed to the index table are strictly
\* increasing, UndoReorder or not
C10_IncreasingAsStated ==
    Emitted =>
        \A i, j \in 1 .. Len(emitted) :
            i < j => emitted[i].Position < emitted[j].Position

\* C10 (amended): the entries are passed in strictly increasing order of
\* their managed edit unit; without UndoReorder that is the position
\* passed, with UndoReorder the position is the managed edit unit plus the
\* entry's temporal difference, which need not increase
C10_Increasing ==
    Emitted =>
        /\ \A i, j \in 1 .. Len(emitted) :
               i < j => emitted[i].EditUnit < emitted[j].EditUnit
        /\ \A i \in 1 .. Len(emitted) :
               emitted[i].Position =
                   IF call.UndoReorder
                   THEN emitted[i].EditUnit + emitted[i].TemporalDiff
                   ELSE emitted[i].EditUnit

\* Two entries emitted with UndoReorder, the later one for the earlier
\* position
C10_Witness ==
    /\ Emitted
    /\ call.UndoReorder
    /\ Len(emitted) = 2
    /\ emitted[1].EditUnit < emitted[2].EditUnit
    /\ emitted[1].Position > emitted[2].Position

(***************************************************************************)
(* Properties of the index table being built (SpecTable)                   *)
(***************************************************************************)

Segments(tbl) == { tbl.SegmentMap[k] : k \in DOMAIN tbl.SegmentMap }

\* The edit units a segment describes
UnitsOf(seg) == seg.StartPosition .. (seg.StartPosition + seg.EntryCount - 1)

\* The k-th entry of the segment describes edit unit StartPosition + k
Dense(seg) ==
    \A i \in 1 .. Len(seg.Entries) :
        seg.Entries[i].StreamOffset = UnitOffset(seg.StartPosition + i - 1)

\* The ranges of the segments are disjoint and follow the order of the map
RangesIncrease(tbl) ==
    \A k1, k2 \in DOMAIN tbl.SegmentMap :
        k1 < k2 => \A a \in UnitsOf(tbl.SegmentMap[k1]), b \in UnitsOf(tbl.SegmentMap[k2]) :
                       a < b

DenseAndDisjoint(tbl) ==
    /\ \A seg \in Segments(tbl) : Dense(seg)
    /\ RangesIncrease(tbl)

\* C11 (as stated): IndexTable::AddIndexEntry and AddSegment calls keep every
\* segment dense (its k-th entry describes edit unit StartPosition + k) and
\* the segments' ranges disjoint and increasing across the segment map.
\* Violated: an edit unit that already has an entry is not replaced, its
\* new entry is appended to the end of the segment
C11_DenseDisjointAsStated ==
    [][(tblCall'.op \in {"AddIndexEntry", "AddSegment"} /\ DenseAndDisjoint(Table))
          => DenseAndDisjoint(Table')]_vars

\* The segment holds entries of the table's current entry size only, and no
\* more than 65535 bytes of them
Fits(tbl, seg) ==
    /\ ArrayBytes(seg) = seg.EntryCount * IndexEntrySize(tbl)
    /\ ArrayBytes(seg) <= MaxSegmentBytes

\* The step is an IndexTable::AddIndexEntry call whose entry has the table's
\* slice and PosTable counts and whose segment (the one GetSegment selects)
\* has no room for one more entry
RefusedForSize ==
    /\ tblCall'.op = "AddIndexEntry"
    /\ tblCall'.SliceCount = Table.NSL
    /\ tblCall'.PosCount = Table.NPE
    /\ LET g == GetSegment(Table, tblCall'.EditUnit)
       IN  ~SegmentHasRoom(g.tbl, g.tbl.SegmentMap[g.key])

\* The key of the segment GetSegment selects for the edit unit of the step
SelectedKey == GetSegment(Table, tblCall'.EditUnit).key

CreatedAt(E) ==
    /\ tblCall'.key = E
    /\ E \notin DOMAIN Table.SegmentMap
    /\ DOMAIN Table'.SegmentMap = DOMAIN Table.SegmentMap \cup {E}
    /\ Table'.SegmentMap[E].StartPosition = E
    /\ Table'.SegmentMap[E].EntryCount = 0
    /\ Table'.SegmentMap[E].Entries = << >>
    /\ \A k \in DOMAIN Table.SegmentMap : Table'.SegmentMap[k] = Table.SegmentMap[k]

\* The step returned the existing segment with key k and made no segment
Returned(k) ==
    /\ tblCall'.key = k
    /\ Table' = Table

\* The keys of the segments starting at or before E
StartingUpTo(tbl, E) == {k \in DOMAIN tbl.SegmentMap : k <= E}

C15_UniformAsStated ==
    (Table # NoResult /\ Table.EditUnitByteCount = 0) =>
        /\ \A s1, s2 \in Segments(Table) : Len(s1.DeltaArray) = Len(s2.DeltaArray)
        /\ \A seg \in Segments(Table) : \A i \in 1 .. Len(seg.Entries) :
              /\ Len(seg.Entries[i].SliceOffsets) = Table.NSL
              /\ Len(seg.Entries[i].PosTable) = Table.NPE

\* C16 (as stated): for every segment of a VBR table the byte length of the
\* IndexEntryArray equals EntryCount * (11 + 4*NSL + 8*NPE).
\* Violated: entries are appended with the entry size of the moment, and a
\* segment parsed later changes NSL and NPE under the entries already held
C16_ArrayLengthAsStated ==
    (Table # NoResult /\ Table.EditUnitByteCount = 0) =>
        \A seg \in Segments(Table) :
            ArrayBytes(seg) = seg.EntryCount * IndexEntrySize(Table)

(***************************************************************************)
(* Properties of the stream offsets the manager writes (SpecEmit)          *)
(***************************************************************************)

\* StreamOffset values of consecutive entries do not decrease
Monotone(seg) ==
    \A i \in 1 .. Len(seg.Entries) - 1 :
        seg.Entries[i].StreamOffset <= seg.Entries[i + 1].StreamOffset

\* The stream offset the manager holds for an edit unit
ManagedOffset(EditUnit) == ManagedData[EditUnit].StreamOffset[1]

\* The offsets of the entries emitted do not decrease with the edit unit
OfferedMonotone ==
    \A i, j \in 1 .. Len(emitted) :
        i < j => ManagedOffset(emitted[i].EditUnit) <= ManagedOffset(emitted[j].EditUnit)

RECURSIVE SizeOfFirst(_)
SizeOfFirst(k) == IF k = 0 THEN 0 ELSE SizeOfFirst(k - 1) + ElementSizeList[k]

FillNeeded ==
    LET K    == EffectiveKAG
        base == K - (fillIn.FillPos % K)
    IN  IF fillIn.FillPos % K = 0 THEN 0
        ELSE IF base >= FillRequired THEN base
        ELSE base + K * ((FillRequired - base + K - 1) \div K)

\* C18: when the filler needed exceeds 0x00ffffff bytes an error is reported
\* and the size returned is exactly 0x00ffffff; for all other inputs the
\* size returned does not exceed 0x00ffffff (it is the filler needed) and no
\* error is reported
C18_FillerLimit ==
    FillDone =>
        IF FillNeeded > MaxFiller
        THEN fillOut.Error /\ fillOut.Fill = MaxFiller
        ELSE ~fillOut.Error /\ fillOut.Fill <= MaxFiller /\ fillOut.Fill = FillNeeded

\* A filler of more than 0x00ffffff bytes was needed and clamped
C18_Witness ==
    /\ FillDone
    /\ FillNeeded > MaxFiller
    /\ fillOut.Error
    /\ fillOut.Fill = MaxFiller


(***************************************************************************)
(* Properties of the essence source (SpecSource)                           *)
(***************************************************************************)

\* A GetEssenceData call has returned a chunk (not NULL)
GotChunk == srcCall # NoResult /\ ~srcCall.Data.null

\* C19: every GetEssenceData(Size, MaxSize) call with MaxSize # 0, on the
\* base source and on the MPEG2 video source, returns a chunk of at most
\* MaxSize bytes
C19_MaxSizeCeiling ==
    (GotChunk /\ srcCall.MaxSize # 0) => Len(srcCall.Data.bytes) <= srcCall.MaxSize

\* A call with a MaxSize below what was left of the wrapping unit returned
\* exactly MaxSize bytes and kept the rest for later
C19_Witness ==
    /\ GotChunk
    /\ srcCall.MaxSize # 0
    /\ Len(srcCall.Data.bytes) = srcCall.MaxSize
    /\ \/ Source.Kind = "Base" /\ ~Source.RemainingData.null
       \/ Source.Kind = "VES" /\ Source.BytesRemaining > 0 /\ srcCall.Size = 0

\* All bytes of a chunk belong to one wrapping unit
InOneUnit(b) ==
    \A i, j \in 1 .. Len(b) : UnitOfByte(FileUnits, b[i]) = UnitOfByte(FileUnits, b[j])

\* The chunk ends with the last byte of its wrapping unit
EndsItsUnit(b) ==
    LET u == UnitOfByte(FileUnits, b[Len(b)])
    IN  b[Len(b)] = UnitStart(FileUnits, u) + FileUnits[u] - 1

\* C20: on a source that uses BaseGetEssenceData no returned chunk spans two
\* wrapping units, the bytes returned so far are the bytes of the file in
\* order with none left out (so the rest of a split unit comes before any
\* byte of the next unit), and EndOfItem() is false after every chunk that
\* is not the last part of its unit
C20_NoSpanning ==
    Source # NoResult /\ Source.Kind = "Base" =>
        /\ \A i \in 1 .. Len(delivered) : delivered[i] = i - 1
        /\ GotChunk =>
              /\ InOneUnit(srcCall.Data.bytes)
              /\ ~EndsItsUnit(srcCall.Data.bytes) => ~EndOfItem(Source)

\* The first of two wrapping units was split by MaxSize and a later call has
\* returned its last part, after which EndOfItem() is true in frame wrapping
C20_Witness ==
    /\ Source # NoResult /\ Source.Kind = "Base" /\ Source.WrapType = "Frame"
    /\ Len(FileUnits) = 2
    /\ GotChunk
    /\ UnitOfByte(FileUnits, srcCall.Data.bytes[1]) = 1
    /\ srcCall.Data.bytes[1] # 0
    /\ EndsItsUnit(srcCall.Data.bytes)
    /\ EndOfItem(Source)


\* A GetEssenceData call has returned NULL
GotNull == srcCall # NoResult /\ srcCall.Data.null

AskedNonNative ==
    /\ vesCall # NoResult
    /\ vesCall.op = "SetEditRate"
    /\ ~IsNative(VES, vesCall.EditRate)
    /\ ~(vesCall.EditRate.Denominator # 0 /\ SameRate(VES.NativeEditRate, vesCall.EditRate))

\* C22: a SetEditRate call with a rate other than the native rate returns
\* true only if the selected wrapping has CanSlave set; with a wrapping
\* without CanSlave it returns false and leaves SelectedEditRate as it was
C22_CanSlaveAsStated ==
    (AskedNonNative /\ ~VES.SelectedWrapping.CanSlave) =>
        /\ vesCall.ret = 0
        /\ VES.SelectedEditRate = vesCall.before

\* The value GetCurrentPosition would return for a selected rate that is
\* not the native one: the picture number times selected rate over native
Rescaled(ves) ==
    RoundHalfUp(ves.PictureNumber * ves.SelectedEditRate.Numerator
                    * ves.NativeEditRate.Denominator,
                ves.SelectedEditRate.Denominator * ves.NativeEditRate.Numerator)

\* C29: GetCurrentPosition, for a selected rate that is not the native rate
\* and with both denominators (and the native numerator) not 0, returns the
\* picture number rescaled from the native to the selected rate
C29_RescaledAsStated ==
    ( /\ vesCall # NoResult
      /\ vesCall.op = "GetCurrentPosition"
      /\ ~IsNative(VES, VES.SelectedEditRate)
      /\ VES.SelectedEditRate.Denominator # 0
      /\ VES.NativeEditRate.Denominator # 0
      /\ VES.NativeEditRate.Numerator # 0 )
    => vesCall.ret = Rescaled(VES)


(***************************************************************************)
(* Properties of the GCLayout tracker (SpecLayout)                         *)
(***************************************************************************)

\* The last call was an Offer
Offered == layCall # NoResult /\ layCall.op = "Offer"

\* The element just offered is not the element the template has at the
\* position the element takes in the current GC
DeviatesHere ==
    LET k == Len(Layout._fresh)
    IN  \/ k > Len(Layout._current)
        \/ ~KindEq(layCall.me, Layout._current[k])

\* C23: with a valid template, Offer returns -1 (and the inconsistent flag
\* is set) if and only if the element offered deviates from the template
\* at its position in the current GC
C23_ConsistentAsStated ==
    (Offered /\ layCall.before._valid) =>
        /\ (layCall.ret = -1) <=> DeviatesHere
        /\ (layCall.ret = -1) => Layout._inconsistent

\* C24: with auto-refresh every Offer that starts a new GC after at least one
\* element leaves the GC just completed as the template, whether or not a
\* template was valid before; without auto-refresh no Offer changes the
\* template
C24_RefreshAsStated ==
    Offered =>
        IF layCall.before._autorefresh
        THEN (layCall.ret = 3 /\ layCall.before._fresh # << >>) =>
                 Layout._current = layCall.before._fresh
        ELSE Layout._current = layCall.before._current


\* The GC being built conforms to the template: its elements are the first
\* elements of the template, in order
ConformsSoFar ==
    /\ Len(Layout._fresh) <= Len(Layout._current)
    /\ \A i \in 1 .. Len(Layout._fresh) : KindEq(Layout._fresh[i], Layout._current[i])

\* C34 as stated: the inconsistent flag reflects only the current GC: when
\* an Offer on a valid template reports no deviation and the GC being built
\* conforms to the template, the tracker is not inconsistent, whatever was
\* reported in an earlier GC
C34_CurrentGCOnlyAsStated ==
    (Offered /\ layCall.before._valid /\ layCall.ret # -1 /\ ConformsSoFar) =>
        ~Layout._inconsistent

\* C35 as stated: ForceEnd after a non-empty element sequence adopts the
\* sequence as the template, marks the template valid and returns 2; it
\* returns -1 only when no element has been offered
C35_ForceEndAsStated ==
    (layCall # NoResult /\ layCall.op = "ForceEnd") =>
        IF layCall.before._fresh # << >>
        THEN /\ Layout._current = layCall.before._fresh
             /\ Layout._valid
             /\ layCall.ret = 2
        ELSE layCall.ret = -1

(***************************************************************************)
(* Properties of the elements registered with a GCWriter (SpecWriter)      *)
(***************************************************************************)

\* C28: AddSoundElement(ElementType) registers a sound element, item type
\* 0x16, as AddSoundElement(false, ElementType) does, never a picture
\* element
C28_SoundElementAsStated ==
    (gcwCall # NoResult /\ gcwCall.op = "AddSoundElement") =>
        LET before == SubSeq(StreamTable, 1, Len(StreamTable) - 1)
        IN  /\ StreamTable = AddSoundElementFor(before, FALSE, gcwCall.ElementType).tbl
            /\ StreamTable[Len(StreamTable)].Type = 22


(***************************************************************************)
(* Properties of the index segments written (SpecWrite)                    *)
(***************************************************************************)

\* WriteIndex was called, with or without FeatureNegPrechargeIndex
Wrote(NegPrecharge) ==
    /\ tblCall # NoResult
    /\ tblCall.op = "WriteIndex"
    /\ tblCall.NegPrecharge = NegPrecharge

\* With the feature the signed start of each segment is written, 0 - PreCharge
\* for the one segment of a CBR table
SignedStartsWritten ==
    Wrote(TRUE) =>
        IF Table.EditUnitByteCount # 0
        THEN tblCall.Written[0].IndexStartPosition = 0 - Table.PreCharge
        ELSE \A k \in DOMAIN Table.SegmentMap :
                 tblCall.Written[k].IndexStartPosition = Table.SegmentMap[k].StartPosition

\* C25 as stated: without FeatureNegPrechargeIndex every IndexStartPosition
\* written is non-negative; with it the signed start position is written
C25_StartPositionAsStated ==
    /\ Wrote(FALSE) =>
          \A k \in DOMAIN tblCall.Written : tblCall.Written[k].IndexStartPosition >= 0
    /\ SignedStartsWritten

\* C25: without FeatureNegPrechargeIndex the IndexStartPosition written is
\* PreCharge more than the start of the segment (0 for a CBR table), which
\* is non-negative exactly for the segments that start at -PreCharge or
\* later; with the feature the signed start position is written
C25_StartPosition ==
    /\ Wrote(FALSE) =>
          IF Table.EditUnitByteCount # 0
          THEN tblCall.Written[0].IndexStartPosition = 0
          ELSE \A k \in DOMAIN Table.SegmentMap :
                  /\ tblCall.Written[k].IndexStartPosition - Table.PreCharge
                         = Table.SegmentMap[k].StartPosition
                  /\ (tblCall.Written[k].IndexStartPosition >= 0)
                         <=> (Table.SegmentMap[k].StartPosition >= 0 - Table.PreCharge)
    /\ SignedStartsWritten

\* A VBR table with a pre-charge of 2 and segments starting at -2 and 0 was
\* written without the feature: the starts written are 0 and 2
C25_Witness ==
    /\ Wrote(FALSE)
    /\ Table.EditUnitByteCount = 0
    /\ Table.PreCharge = 2
    /\ DOMAIN Table.SegmentMap = {-2, 0}
    /\ tblCall.Written[-2].IndexStartPosition = 0
    /\ tblCall.Written[0].IndexStartPosition = 2


(***************************************************************************)
(* Properties of the key frame location of a look-up (SpecLookup)          *)
(***************************************************************************)

\* A segment of the VBR table holds an entry for edit unit E
HoldsEntry(E) == Table.EditUnitByteCount = 0 /\ HasEntry(Table, E)

\* The edit unit whose entry the last look-up has read to the end: the one
\* asked for, or the one its temporal offset leads to
UnitRead ==
    LET E == lookIn.EditUnit
        T == GetI8(EntryOf(Table, E).TemporalOffset)
    IN  IF ApplyReorder(SegmentOf(Table, E), lookIn.SubItem, lookIn.Reorder, T)
        THEN E + T ELSE E

\* The last look-up has read the entry of an edit unit to the end
ReadAnEntry ==
    /\ lookIn # NoResult
    /\ HoldsEntry(lookIn.EditUnit)
    /\ HoldsEntry(UnitRead)

\* C27: in a VBR look-up that reads an entry, KeyLocation is the sentinel
\* exactly when bit 2 of the entry's flags is set or -KeyFrameOffset is more
\* than the entry's distance from the segment start; otherwise it is the
\* stream offset of the entry KeyFrameOffset entries away in the segment
C27_KeyLocationAsStated ==
    ReadAnEntry =>
        LET seg == SegmentOf(Table, UnitRead)
            at  == UnitRead - seg.StartPosition
            e   == EntryOf(Table, UnitRead)
            KeyFrameOffset == GetI8(e.KeyFrameOffset)
        IN  IF FlagBit2(e.Flags) \/ (0 - KeyFrameOffset) > at
            THEN Ret.KeyLocation = KeyLocationSentinel
            ELSE /\ Ret.KeyLocation # KeyLocationSentinel
                 /\ at + KeyFrameOffset + 1 \in 1 .. seg.EntryCount
                 /\ Ret.KeyLocation = seg.Entries[at + KeyFrameOffset + 1].StreamOffset

(***************************************************************************)
(* Properties of the provisional entry (SpecProvisional)                   *)
(***************************************************************************)

\* The edit unit the last AddEditUnit or SetOffset call worked on, relative to
\* the sub-range
CallTarget ==
    IF call.op = "AddEditUnit"
    THEN CorrectForSubRange(call.EditUnit, SubRangeOffset)
    ELSE call.EditUnit

\* This step is an AddEditUnit or SetOffset call for the edit unit of the
\* buffered provisional entry
ReusesProvisional ==
    /\ ProvisionalEntry.Valid
    /\ nOffers' = nOffers + 1
    /\ call'.op \in {"AddEditUnit", "SetOffset"}
    /\ CallTarget' = ProvisionalEntry.EditUnit

C30_ResolvedMarkedAsStated ==
    [][\A e \in DOMAIN UnsatisfiedTemporalOffsets :
          (e \notin DOMAIN ManagedData /\ e \in DOMAIN ManagedData') =>
              HasBit(ManagedData'[e].Status, HaveTemporalOffset)]_vars

(***************************************************************************)
(* Properties of the temporal difference (SpecEmit)                        *)
(***************************************************************************)

\* The temporal differences parked for edit unit u: SetTemporalOffset(E, D)
\* parks -D, meant for E + D, and records it under E
ParkedDiffsFor(u) ==
    {UnsatisfiedTemporalDiffs[k] :
        k \in {j \in DOMAIN UnsatisfiedTemporalDiffs :
                  j - UnsatisfiedTemporalDiffs[j] = u}}

\* C31 as stated: SetTemporalOffset(E, D) gives edit unit E + D the temporal
\* difference -D: at once when E + D is managed already, and else when E + D
\* is added, whose new entry then holds a difference parked for it
C31_TemporalDiffAsStated ==
    [][/\ (~DataIsCBR /\ OfferStep("SetTemporalOffset")
             /\ SubRanged(call'.EditUnit) + call'.Offset \in DOMAIN ManagedData') =>
              ManagedData'[SubRanged(call'.EditUnit) + call'.Offset].TemporalDiff
                  = 0 - call'.Offset
       /\ \A u \in (DOMAIN ManagedData') \ (DOMAIN ManagedData) :
              ParkedDiffsFor(u) # {} =>
                  ManagedData'[u].TemporalDiff \in ParkedDiffsFor(u)]_vars

(***************************************************************************)
(* Properties of repeated AddEntriesToIndex calls (SpecEmit)               *)
(***************************************************************************)

\* This step is an AddEntriesToIndex call that directly follows another one
\* with the same UndoReorder, on the same index table: nothing was offered
\* to the manager in between
EmitsAgain ==
    /\ call.op = "AddEntriesToIndex"
    /\ call'.op = "AddEntriesToIndex"
    /\ nEmits' = nEmits + 1
    /\ call'.UndoReorder = call.UndoReorder

\* C32 as stated: a second AddEntriesToIndex call with nothing new to add
\* leaves the segments and entries of the index table as they were
C32_AddedOnceAsStated ==
    [][EmitsAgain => Index'.SegmentMap = Index.SegmentMap]_vars

\* The entries the last AddEntriesToIndex call stored in the index table
StoredByCall == {i \in 1 .. Len(emitted) : emitted[i].ok}

\* C33 as stated: AddEntriesToIndex returns the number of entries it stored
\* in the index table; an entry IndexTable::AddIndexEntry refused is not
\* counted
C33_CountsStoredAsStated ==
    Emitted => call.ret = Cardinality(StoredByCall)

(***************************************************************************)
(* Properties of IndexTable::AddSegment (SpecTable)                        *)
(***************************************************************************)

\* C36: AddSegment(StartPosition) leaves the table as it is when a segment
\* starts at StartPosition already; otherwise it adds one segment, keyed by
\* and starting at StartPosition, without entries, and leaves the other
\* segments as they are
C36_AddSegmentIdempotent ==
    [][(tblCall'.op = "AddSegment" /\ nTblCalls' = nTblCalls + 1) =>
          LET p == tblCall'.StartPosition
          IN  IF p \in DOMAIN Table.SegmentMap
              THEN Table' = Table
              ELSE /\ DOMAIN Table'.SegmentMap = (DOMAIN Table.SegmentMap) \cup {p}
                   /\ \A k \in DOMAIN Table.SegmentMap :
                          Table'.SegmentMap[k] = Table.SegmentMap[k]
                   /\ Table'.SegmentMap[p].StartPosition = p
                   /\ Table'.SegmentMap[p].EntryCount = 0
                   /\ Table'.SegmentMap[p].Entries = << >>
                   /\ [Table' EXCEPT !.SegmentMap = Table.SegmentMap] = Table]_vars

\* AddSegment was called for a start position whose segment holds entries:
\* the segment was there before the call and is kept with its entries
C36_Witness ==
    /\ tblCall # NoResult
    /\ tblCall.op = "AddSegment"
    /\ tblCall.StartPosition \in DOMAIN Table.SegmentMap
    /\ Table.SegmentMap[tblCall.StartPosition].EntryCount > 0

(***************************************************************************)
(* Properties of the segment size limit (SpecTable)                        *)
(***************************************************************************)

\* C38 as stated: AddIndexEntry and AddIndexEntries without AllowOverSize
\* enforce the same limit: the entries a bulk addition was accepted with
\* would have been accepted one by one, and a segment that accepted a single
\* entry would have accepted it as a bulk addition of one
C38_SameLimitAsStated ==
    /\ (tblCall # NoResult /\ tblCall.op = "AddIndexEntries" /\ tblCall.ok) =>
           LET seg == Table.SegmentMap[tblCall.key]
           IN  \A n \in (seg.EntryCount - tblCall.Count) .. (seg.EntryCount - 1) :
                   SegmentHasRoom(Table, [seg EXCEPT !.EntryCount = n])
    /\ (tblCall # NoResult /\ tblCall.op = "AddIndexEntry" /\ tblCall.ok) =>
           LET seg == Table.SegmentMap[tblCall.key]
           IN  EntriesHaveRoom(Table, [seg EXCEPT !.EntryCount = @ - 1], 1,
                               IndexEntrySize(Table))


(***************************************************************************)
(* Properties of ReorderIndex::CommitEntries                               *)
(***************************************************************************)

\* A step that is a call of CommitEntries
CommitStep == roCall'.op = "CommitEntries" /\ nRoCalls' = nRoCalls + 1

\* C37: a CommitEntries that commits n entries reduces EntryCount and
\* CompleteEntryCount by n, advances FirstPosition by n while entries
\* remain, and keeps every remaining entry's content at its absolute edit
\* unit; a commit that fails returns 0 and changes nothing in the
\* ReorderIndex
C37_CommitAsStated ==
    [][CommitStep =>
          LET n == roCall'.ret
          IN  IF ~roCall'.ok
              THEN n = 0 /\ Reorderer' = Reorderer
              ELSE /\ Reorderer'.EntryCount = Reorderer.EntryCount - n
                   /\ Reorderer'.CompleteEntryCount = Reorderer.CompleteEntryCount - n
                   /\ Reorderer.EntryCount > n =>
                         /\ Reorderer'.FirstPosition = Reorderer.FirstPosition + n
                         /\ \A i \in 1 .. Reorderer.EntryCount - n :
                               /\ i <= Len(Reorderer'.IndexEntries)
                               /\ Reorderer'.IndexEntries[i] =
                                      Reorderer.IndexEntries[i + n]]_vars

\* The parts of C37 the code keeps: a failed commit changes nothing in the
\* ReorderIndex, and a commit of every entry leaves it empty
CommitFailureAndFullCommit ==
    [][CommitStep =>
          /\ ~roCall'.ok => roCall'.ret = 0 /\ Reorderer' = Reorderer
          /\ roCall'.ok /\ roCall'.ret >= Reorderer.EntryCount =>
                Reorderer' = EmptyReorderIndex(Reorderer.IndexEntrySize)]_vars

\* The chunk always holds the entries the counts speak of
CountsWithinChunk ==
    Reorderer # NoResult =>
        /\ Reorderer.EntryCount <= Len(Reorderer.IndexEntries)
        /\ Reorderer.CompleteEntryCount <= Reorderer.EntryCount

====
